---- MODULE Spec2Model ----
(***************************************************************************)
(* State-machine model of the DJI Fly Planner PRO route editor (App.tsx,   *)
(* Map.tsx) and of its geometry service (geometryService.ts).              *)
(*                                                                         *)
(* Numbers.  The program computes in IEEE doubles; the model computes in   *)
(* fixed point:                                                            *)
(*   - latitude / longitude : integer multiples of 1e-7 degree ("units");  *)
(*     the modelled area lies at the equator, where one unit of longitude  *)
(*     and one unit of latitude have the same ground length;               *)
(*   - lengths on the ground : millimetres;                                *)
(*   - speeds : centimetres per second;  headings : centidegrees;          *)
(*   - sines, cosines and 2*tan(fov/2) : tables scaled by TrigScale and    *)
(*     by 1000.                                                            *)
(* turf.js calls (polygon, centroid, transformRotate, bbox, lineIntersect, *)
(* distance) are modelled by the planar operation each performs on a       *)
(* survey-sized area.                                                      *)
(***************************************************************************)
EXTENDS Integers, Sequences, FiniteSets, TLC

\* ------------------------------------------------------------------ numbers


\* Division of n by d > 0 rounded to the nearest integer.
RoundDiv(n, d) == (2 * n + d) \div (2 * d)

\* Scale of the sine / cosine table.
TrigScale == 10 * 1000

\* Coordinate units per micro-degree (1 unit = 1e-7 degree).
UnitsPerMicroDeg == 5 + 5

\* JS optional values: undefined is the empty tuple, a value v is <<v>>.
Undefined == <<>>
Some(v) == <<v>>
IsDefined(o) == o # <<>>
TheValue(o) == o[1]

\* { ...a, ...b }: object spread, the later object wins; spreading undefined adds nothing.
Spread(a, b) == [k \in (DOMAIN a) \cup (DOMAIN b) |-> IF k \in DOMAIN b THEN b[k] ELSE a[k]]

\* Array.prototype.reverse
Reverse(s) == [i \in 1..Len(s) |-> s[Len(s) + 1 - i]]

\* Array.prototype.flat / push(...xs) over the rows lo..hi of a list of lists.
RECURSIVE FlatRange(_, _, _)
FlatRange(rows, lo, hi) ==
    IF lo > hi THEN <<>>
    ELSE IF lo = hi THEN rows[lo]
    ELSE LET mid == (lo + hi) \div 2
         IN  FlatRange(rows, lo, mid) \o FlatRange(rows, mid + 1, hi)

Flat(rows) == FlatRange(rows, 1, Len(rows))

\* points.sort((a, b) => a[0] - b[0]) on a set of distinct numbers.
RECURSIVE SortAscending(_)
SortAscending(S) ==
    IF S = {} THEN <<>>
    ELSE LET m == CHOOSE x \in S : \A y \in S : x <= y
         IN  <<m>> \o SortAscending(S \ {m})

\* ------------------------------------------------------------ types.ts

\* DRONE_PRESETS: the first preset and the narrowest one, with 2*tan(fov/2)
\* in thousandths (fovH 82.1 / fovV 49.4 and fovH 35 / fovV 20 degrees).
DRONE_PRESETS ==
    << [model |-> "DJI Mini 4 Pro / Mini 3 Pro", twoTanHalfFovH |-> 1742, twoTanHalfFovV |-> 920],
       [model |-> "DJI Air 3 (Medium Tele)",     twoTanHalfFovH |-> 631,  twoTanHalfFovV |-> 353] >>

\* DRONE_PRESETS.find(d => d.model === model) || DRONE_PRESETS[0]
findDrone(model) ==
    IF \E i \in DOMAIN DRONE_PRESETS : DRONE_PRESETS[i].model = model
    THEN DRONE_PRESETS[CHOOSE i \in DOMAIN DRONE_PRESETS :
                          /\ DRONE_PRESETS[i].model = model
                          /\ \A j \in 1..(i - 1) : DRONE_PRESETS[j].model # model]
    ELSE DRONE_PRESETS[1]

\* DEFAULT_SETTINGS (curveSize in tenths of a metre).
DEFAULT_SETTINGS ==
    [ altitude |-> 30, speedKmh |-> 15, headingMode |-> "auto_path", headingManual |-> 0,
      gimbalPitch |-> -15, gimbalMode |-> 2, action1 |-> -1, altitudeMode |-> 1,
      curveSize |-> 2, finishAction |-> 1, flightMode |-> "standard",
      mappingPattern |-> "parallel", photoTimeInterval |-> -1, mappingOverlap |-> 0,
      mappingOverlapH |-> 0, selectedDroneModel |-> "Default" ]

\* ------------------------------------------------- geometryService.ts: grid

\* const metersPerDegLat = 111320
metersPerDegLat == 111320

\* const maxLines = 500 (the safety break of the scan-line loop)
maxLines == 500

\* Sine and cosine of the modelled rotation angles (degrees), scaled by TrigScale.
Trig(angle) ==
    CASE angle = 0   -> [cos |-> TrigScale, sin |-> 0]
      [] angle = 45  -> [cos |-> 7071, sin |-> 7071]
      [] angle = 90  -> [cos |-> 0, sin |-> TrigScale]
      [] angle = -45 -> [cos |-> 7071, sin |-> -7071]
      [] angle = -90 -> [cos |-> 0, sin |-> -TrigScale]
      [] angle = 135 -> [cos |-> -7071, sin |-> 7071]
      [] angle = -135 -> [cos |-> -7071, sin |-> -7071]
      [] angle = 180 -> [cos |-> -TrigScale, sin |-> 0]
      [] angle = -180 -> [cos |-> -TrigScale, sin |-> 0]

\* Footprint on the ground in millimetres: 2 * altitude * tan(fov / 2).
footprintWidth(settings) == settings.altitude * findDrone(settings.selectedDroneModel).twoTanHalfFovH
footprintHeight(settings) == settings.altitude * findDrone(settings.selectedDroneModel).twoTanHalfFovV

\* laneSpacingMeters = footprintWidth * (1 - mappingOverlapH / 100), in millimetres.
laneSpacingMeters(settings) == (footprintWidth(settings) * (100 - settings.mappingOverlapH)) \div 100

\* photoSpacingMeters = footprintHeight * (1 - mappingOverlap / 100), in millimetres.
photoSpacingMeters(settings) == (footprintHeight(settings) * (100 - settings.mappingOverlap)) \div 100

\* "Ensure closed loop": push coords[0] when the last position differs from it.
closeRing(coords) ==
    IF coords[1] # coords[Len(coords)] THEN Append(coords, coords[1]) ELSE coords

\* turf.centroid: the mean of the ring's positions, the closing one left out.
turfCentroid(ring) ==
    LET n == Len(ring) - 1
        SumLat[i \in 0..n] == IF i = 0 THEN 0 ELSE SumLat[i - 1] + ring[i].lat
        SumLng[i \in 0..n] == IF i = 0 THEN 0 ELSE SumLng[i - 1] + ring[i].lng
    IN  [lat |-> RoundDiv(SumLat[n], n), lng |-> RoundDiv(SumLng[n], n)]

\* turf.transformRotate: every position turned clockwise by angle about pivot
\* (angle 0 returns the input itself).
transformRotate(pts, angle, pivot) ==
    IF angle = 0 THEN pts
    ELSE LET t == Trig(angle)
             Turn(p) ==
                 LET dx == p.lng - pivot.lng
                     dy == p.lat - pivot.lat
                 IN  [lat |-> pivot.lat + RoundDiv(dy * t.cos - dx * t.sin, TrigScale),
                      lng |-> pivot.lng + RoundDiv(dx * t.cos + dy * t.sin, TrigScale)]
         IN  [i \in 1..Len(pts) |-> Turn(pts[i])]

\* turf.bbox: [minX, minY, maxX, maxY]
turfBbox(pts) ==
    LET lats == {pts[i].lat : i \in 1..Len(pts)}
        lngs == {pts[i].lng : i \in 1..Len(pts)}
    IN  [minX |-> CHOOSE v \in lngs : \A w \in lngs : v <= w,
         minY |-> CHOOSE v \in lats : \A w \in lats : v <= w,
         maxX |-> CHOOSE v \in lngs : \A w \in lngs : v >= w,
         maxY |-> CHOOSE v \in lats : \A w \in lats : v >= w]

\* turf.lineIntersect of the horizontal line at latitude y with the ring: the
\* x of every edge crossing (end points included), an edge parallel to the line
\* gives none, equal positions are reported once.
lineIntersect(y, ring) ==
    LET Hit(a, b) ==
            LET lo == IF a.lat <= b.lat THEN a ELSE b
                hi == IF a.lat <= b.lat THEN b ELSE a
            IN  IF a.lat = b.lat \/ y < lo.lat \/ y > hi.lat THEN {}
                ELSE {lo.lng + RoundDiv((y - lo.lat) * (hi.lng - lo.lng), hi.lat - lo.lat)}
    IN  UNION {Hit(ring[i], ring[i + 1]) : i \in 1..(Len(ring) - 1)}

\* turf.distance(pStart, pEnd, {units: 'meters'}) for two positions of equal
\* latitude, in millimetres (111195 m per degree of arc).
turfDistance(xStart, xEnd) ==
    LET d == IF xEnd >= xStart THEN xEnd - xStart ELSE xStart - xEnd
    IN  (d * 111195) \div (1000 * UnitsPerMicroDeg)

\* One span pStart..pEnd of a scan line: the two ends, the photo positions
\* between them, reversed on odd lines (generateGridWaypoints, lines 352-378).
segmentPoints(xStart, xEnd, currentY, lineIndex, photoSpacing) ==
    LET lineDistMeters == turfDistance(xStart, xEnd)
        numPhotos == IF photoSpacing > 0 /\ lineDistMeters > photoSpacing
                     THEN lineDistMeters \div photoSpacing ELSE 0
        inner == [k \in 1..numPhotos |->
                    [lat |-> currentY,
                     lng |-> xStart + RoundDiv((xEnd - xStart) * k * photoSpacing, lineDistMeters)]]
        pts == <<[lat |-> currentY, lng |-> xStart]>> \o inner \o <<[lat |-> currentY, lng |-> xEnd]>>
    IN  IF lineIndex % 2 # 0 THEN Reverse(pts) ELSE pts

\* A scan line that makes a span of every two neighbouring intersections.
scanLinePointsChained(currentY, lineIndex, rotatedPoly, photoSpacing) ==
    LET points == SortAscending(lineIntersect(currentY, rotatedPoly))
    IN  IF Len(points) >= 2
        THEN Flat([j \in 1..(Len(points) - 1) |->
                     segmentPoints(points[j], points[j + 1], currentY, lineIndex, photoSpacing)])
        ELSE <<>>

\* The points one scan line adds to gridPoints (lines 343-380).
scanLinePoints(currentY, lineIndex, rotatedPoly, photoSpacing) ==
    LET points == SortAscending(lineIntersect(currentY, rotatedPoly))
    IN  IF Len(points) >= 2
        THEN Flat([j \in 1..(Len(points) \div 2) |->
                     segmentPoints(points[2 * j - 1], points[2 * j], currentY, lineIndex, photoSpacing)])
        ELSE <<>>

\* What a call of a function of the service does: it returns value after running
\* scanLines iterations of its scan-line loop, it throws, or its loop never ends.
Returned(value, scanLines) == [outcome |-> "returned", value |-> value, scanLines |-> scanLines]
Threw == [outcome |-> "threw", value |-> <<>>, scanLines |-> 0]
LoopsForever == [outcome |-> "loops", value |-> <<>>, scanLines |-> 0]

\* generateGridWaypoints ("Robust Grid Generation for Mapping").
generateGridWaypoints(polygonCoords, settings, rotationAngle) ==
    IF Len(polygonCoords) < 3 THEN Returned(polygonCoords, 0)
    ELSE
    LET coords == closeRing(polygonCoords)
    IN  IF Len(coords) < 4 THEN Threw   \* turf.polygon: a ring needs 4 or more positions
        ELSE
        LET centroid == turfCentroid(coords)
            rotatedPoly == transformRotate(coords, -rotationAngle, centroid)
            bbox == turfBbox(rotatedPoly)
            laneSpacingDeg == (laneSpacingMeters(settings) * 1000 * UnitsPerMicroDeg) \div metersPerDegLat
            startY == bbox.minY + (laneSpacingDeg \div 2)
        IN  \* laneSpacingDeg <= 0.000001
            IF laneSpacingMeters(settings) * 1000 <= metersPerDegLat THEN Returned(polygonCoords, 0)
            ELSE
            LET lineCount == Cardinality({k \in 0..(maxLines - 1) : startY + k * laneSpacingDeg < bbox.maxY})
                gridPoints == Flat([k \in 1..lineCount |->
                                      scanLinePoints(startY + (k - 1) * laneSpacingDeg, k - 1,
                                                     rotatedPoly, photoSpacingMeters(settings))])
            IN  IF Len(gridPoints) = 0 THEN Returned(polygonCoords, lineCount)
                ELSE Returned(transformRotate(gridPoints, rotationAngle, centroid), lineCount)

\* calculateFootprintDimensions(altitude, modelName).width, in millimetres.
calculateFootprintDimensionsWidth(altitude, modelName) == altitude * findDrone(modelName).twoTanHalfFovH

\* The other generateGridWaypoints of the service ("Generates a grid pattern
\* (zig-zag) inside a polygon with rotation"): no vertex-count guard, lane
\* spacing refused only when <= 0, scan lines from north to south, no line cap.
generateGridWaypointsZigZag(polygonCoords, settings, rotationAngle) ==
    LET laneSpacing == (calculateFootprintDimensionsWidth(settings.altitude, settings.selectedDroneModel)
                           * (100 - settings.mappingOverlapH)) \div 100
    IN  IF laneSpacing <= 0 THEN Returned(polygonCoords, 0)
        ELSE
        LET turfCoords == IF Len(polygonCoords) > 0 THEN closeRing(polygonCoords) ELSE polygonCoords
        IN  IF Len(turfCoords) < 4 THEN Threw   \* turf.polygon: a ring needs 4 or more positions
            ELSE
            LET pivot == turfCentroid(turfCoords)
                rotatedPoly == transformRotate(turfCoords, -rotationAngle, pivot)
                bbox == turfBbox(rotatedPoly)
                \* latStep = laneSpacingMeters / 111132
                latStep == (laneSpacing * 1000 * UnitsPerMicroDeg) \div 111132
                startLat == bbox.maxY - (latStep \div 2)
            IN  \* currentLat -= latStep leaves currentLat as it is when latStep is
                \* below the resolution of the numbers: while (currentLat > minLat) never ends
                IF latStep = 0 /\ startLat > bbox.minY THEN LoopsForever
                ELSE
                LET lineCount == IF startLat > bbox.minY
                                 THEN ((startLat - bbox.minY - 1) \div latStep) + 1 ELSE 0
                    Hits(k) == SortAscending(lineIntersect(startLat - k * latStep, rotatedPoly))
                    used == {k \in 0..(lineCount - 1) : Len(Hits(k)) >= 2}
                    \* direction *= -1 after every line that gave points
                    LinePoints(k) ==
                        LET points == Hits(k)
                            row == [i \in 1..Len(points) |->
                                      [lat |-> startLat - k * latStep, lng |-> points[i]]]
                        IN  IF k \notin used THEN <<>>
                            ELSE IF Cardinality({j \in used : j < k}) % 2 = 0 THEN row
                            ELSE Reverse(row)
                    resultPoints == Flat([k \in 1..lineCount |-> LinePoints(k - 1)])
                IN  IF Len(resultPoints) = 0 THEN Returned(polygonCoords, lineCount)
                    ELSE Returned(transformRotate(resultPoints, rotationAngle, pivot), lineCount)

\* --------------------------------------------- geometryService.ts: bearings

\* atan(a / b) for 0 <= a <= b, b > 0, in centidegrees.
ArcTanCentiDeg(a, b) ==
    LET r == (a * 1000) \div b
    IN  (4500 * r + (1564 * r * (1000 - r)) \div 1000) \div 1000

\* calculateBearing(lat1, lon1, lat2, lon2): (atan2(y, x) in degrees + 360) % 360,
\* in centidegrees; on a survey-sized area y is the eastward and x the northward
\* offset.
calculateBearing(lat1, lon1, lat2, lon2) ==
    LET y == lon2 - lon1
        x == lat2 - lat1
        ay == IF y < 0 THEN -y ELSE y
        ax == IF x < 0 THEN -x ELSE x
        base == IF ax = 0 /\ ay = 0 THEN 0
                ELSE IF ay <= ax THEN ArcTanCentiDeg(ay, ax)
                ELSE 9000 - ArcTanCentiDeg(ax, ay)
        brng == IF x >= 0 /\ y >= 0 THEN base
                ELSE IF x < 0 /\ y >= 0 THEN 18000 - base
                ELSE IF x < 0 /\ y < 0 THEN 18000 + base
                ELSE 36000 - base
    IN  brng % 36000

\* updateWaypointsWithBearings(waypoints)
updateWaypointsWithBearings(waypoints) ==
    IF Len(waypoints) <= 1 THEN waypoints
    ELSE [index \in 1..Len(waypoints) |->
            LET wp == waypoints[index]
                bearing ==
                    IF index < Len(waypoints)
                    THEN calculateBearing(wp.latitude, wp.longitude,
                                          waypoints[index + 1].latitude, waypoints[index + 1].longitude)
                    ELSE calculateBearing(waypoints[index - 1].latitude, waypoints[index - 1].longitude,
                                          wp.latitude, wp.longitude)
            IN  Spread(wp, [heading |-> bearing])]

\* -------------------------------------------- geometryService.ts: statistics
\* Distances in millimetres, speeds in centimetres per second, times in ticks
\* of 1e-4 second, actionParam1 and photoTimeInterval in seconds.

\* floor(sqrt(n)) for lo * lo <= n < (hi + 1) * (hi + 1)
RECURSIVE SqrtBetween(_, _, _)
SqrtBetween(n, lo, hi) ==
    IF lo >= hi THEN lo
    ELSE LET mid == (lo + hi + 1) \div 2
         IN  IF mid * mid <= n THEN SqrtBetween(n, mid, hi) ELSE SqrtBetween(n, lo, mid - 1)

\* calculateDistance(lat1, lon1, lat2, lon2): the haversine distance, R = 6371e3,
\* which on a survey-sized area at the equator is the planar distance at
\* 111195 m per degree; in millimetres.
calculateDistance(lat1, lon1, lat2, lon2) ==
    LET dLat == lat2 - lat1
        dLon == lon2 - lon1
        n == dLat * dLat + dLon * dLon
    IN  (SqrtBetween(n, 0, 40000) * 111195) \div (1000 * UnitsPerMicroDeg)

\* The sum of a list of numbers.
SumSeq(xs) ==
    LET Acc[i \in 0..Len(xs)] == IF i = 0 THEN 0 ELSE Acc[i - 1] + xs[i]
    IN  Acc[Len(xs)]

\* What JavaScript gives for x / 0 and for Math.floor of it: not a finite number.
NotFinite == 2147483647

\* a + b on counts, one of which may be not finite
AddCount(a, b) == IF a = NotFinite \/ b = NotFinite THEN NotFinite ELSE a + b

\* settings.speedKmh / 3.6, in cm/s
speedMs(s) == RoundDiv(s.speedKmh * 1000, 36)

\* dist / speed: millimetres over cm/s, in ticks
travelTime(dist, speed) == (dist * 1000) \div speed

\* A selection that keeps only the first route of the list when asked for 'all'.
routesToCalcFirstOnly(rs, targetRouteId) ==
    IF targetRouteId = "all" THEN (IF Len(rs) = 0 THEN rs ELSE <<rs[1]>>)
    ELSE SelectSeq(rs, LAMBDA r : r.id = targetRouteId)

\* const routesToCalc = targetRouteId === 'all' ? routes : routes.filter(r => r.id === targetRouteId)
routesToCalc(rs, targetRouteId) ==
    IF targetRouteId = "all" THEN rs
    ELSE SelectSeq(rs, LAMBDA r : r.id = targetRouteId)

\* calculateDistance between waypoints i and i + 1 of a route
segDist(route, i) ==
    calculateDistance(route.waypoints[i].latitude, route.waypoints[i].longitude,
                      route.waypoints[i + 1].latitude, route.waypoints[i + 1].longitude)

\* "1. Commute (Home -> WP1)"
commuteDist(route) ==
    calculateDistance(route.homePoint.lat, route.homePoint.lng,
                      route.waypoints[1].latitude, route.waypoints[1].longitude)

\* "3. Return (Last WP -> Home) if RTH"
returnDist(route, s) ==
    IF s.finishAction = 1
    THEN calculateDistance(route.waypoints[Len(route.waypoints)].latitude,
                           route.waypoints[Len(route.waypoints)].longitude,
                           route.homePoint.lat, route.homePoint.lng)
    ELSE 0

\* "4. Mapping Interval Photos Estimation": Math.floor(pathTime / interval), the
\* interval and the speed being those of the first waypoint.
intervalPhotos(route, s) ==
    LET n == Len(route.waypoints)
        interval == route.waypoints[1].photoTimeInterval
        routePathLen == SumSeq([i \in 1..(n - 1) |-> segDist(route, i)])
        speed == IF route.waypoints[1].speed > 0 THEN route.waypoints[1].speed ELSE speedMs(s)
    IN  IF interval > 0
        THEN IF speed = 0 THEN NotFinite
             ELSE travelTime(routePathLen, speed) \div (interval * 10000)
        ELSE 0

\* One pass of routesToCalc.forEach (lines 409-461): what a route adds to
\* totalDist, totalTime, photoCount and videoCount.
routeTotals(route, s) ==
    LET wps == route.waypoints
        n == Len(wps)
    IN  IF n = 0 THEN [dist |-> 0, time |-> 0, photos |-> 0, videos |-> 0]
        ELSE
        [ dist |-> commuteDist(route)
                    + SumSeq([i \in 1..(n - 1) |-> segDist(route, i)])
                    + returnDist(route, s),
          \* w1.actionParam1 / 1000 and then w1.actionParam1 again
          time |-> SumSeq([i \in 1..(n - 1) |->
                             IF wps[i].actionType1 = 0
                             THEN wps[i].actionParam1 * 10 + wps[i].actionParam1 * 10000
                             ELSE 0]),
          photos |-> AddCount(Cardinality({i \in 1..n : wps[i].actionType1 = 1}),
                              intervalPhotos(route, s)),
          videos |-> Cardinality({i \in 1..(n - 1) : wps[i].actionType1 = 2}) ]

\* estimateRouteStats(routes, settings, filterId), lines 401-476: totalTimeMinutes
\* is totalTime / 60, kept in ticks of 1/600000 minute.
estimateRouteStats(rs, s, filterId) ==
    LET chosen == routesToCalc(rs, filterId)
        per == [k \in 1..Len(chosen) |-> routeTotals(chosen[k], s)]
        Photos[k \in 0..Len(per)] == IF k = 0 THEN 0 ELSE AddCount(Photos[k - 1], per[k].photos)
        totalDist == SumSeq([k \in 1..Len(per) |-> per[k].dist])
        totalTime == SumSeq([k \in 1..Len(per) |-> per[k].time])
                       + (IF speedMs(s) > 0 THEN travelTime(totalDist, speedMs(s)) ELSE 0)
    IN  [ totalDistance |-> totalDist,
          totalTimeMinutes |-> totalTime,
          photoCount |-> Photos[Len(per)],
          videoCount |-> SumSeq([k \in 1..Len(per) |-> per[k].videos]) ]

\* The other estimateRouteStats of the service (lines 702-778): time is
\* accumulated leg by leg.

\* dist / (speed || 1) with speed = wp.speed > 0 ? wp.speed : settings.speedKmh / 3.6
segmentTime(route, i, s) ==
    LET wp == route.waypoints[i]
        speed == IF wp.speed > 0 THEN wp.speed ELSE speedMs(s)
    IN  travelTime(segDist(route, i), IF speed # 0 THEN speed ELSE 100)

\* const rthSpeed = 10 (m/s), in cm/s
rthSpeed == 1000

\* One pass of routesToCalc.forEach (lines 716-770).
routeTotalsBySegment(route, s) ==
    LET wps == route.waypoints
        n == Len(wps)
    IN  IF n = 0 THEN [dist |-> 0, time |-> 0, photos |-> 0, videos |-> 0]
        ELSE
        [ dist |-> commuteDist(route)
                    + SumSeq([i \in 1..(n - 1) |-> segDist(route, i)])
                    + returnDist(route, s),
          time |-> \* distToStart / (speedMs || 5)
                   travelTime(commuteDist(route), IF speedMs(s) # 0 THEN speedMs(s) ELSE 500)
                    + SumSeq([i \in 1..(n - 1) |->
                                segmentTime(route, i, s)
                                  + (IF wps[i].actionType1 = 0 THEN 5 * 10000 ELSE 0)
                                  + (IF wps[i].actionType1 = 1 THEN 2 * 10000 ELSE 0)])
                    + travelTime(returnDist(route, s), rthSpeed),
          photos |-> Cardinality({i \in 1..n : wps[i].actionType1 = 1})
                      + SumSeq([i \in 1..(n - 1) |->
                                  IF wps[i].photoTimeInterval > 0
                                     /\ wps[i].actionType1 # 2 /\ wps[i].actionType1 # 3
                                  THEN segmentTime(route, i, s) \div (wps[i].photoTimeInterval * 10000)
                                  ELSE 0]),
          videos |-> Cardinality({i \in 1..n : wps[i].actionType1 = 2}) ]

\* estimateRouteStats(routes, settings, targetRouteId), lines 702-778.
estimateRouteStatsBySegment(rs, s, targetRouteId) ==
    LET chosen == routesToCalc(rs, targetRouteId)
        per == [k \in 1..Len(chosen) |-> routeTotalsBySegment(chosen[k], s)]
    IN  [ totalDistance |-> SumSeq([k \in 1..Len(per) |-> per[k].dist]),
          totalTimeMinutes |-> SumSeq([k \in 1..Len(per) |-> per[k].time]),
          photoCount |-> SumSeq([k \in 1..Len(per) |-> per[k].photos]),
          videoCount |-> SumSeq([k \in 1..Len(per) |-> per[k].videos]) ]

\* ---------------------------------------- geometryService.ts: destination

\* Sine and cosine of a bearing of 0..360 degrees, scaled by TrigScale.
TrigOfBearing(bearing) == Trig(IF bearing > 180 THEN bearing - 360 ELSE bearing)

\* A destination that takes the bearing as an angle from east, counter-clockwise.
computeDestinationPointFromEast(lat, lon, distanceMeters, bearing) ==
    LET angularDist == RoundDiv(distanceMeters * 1000 * UnitsPerMicroDeg, 111195)
        t == TrigOfBearing(bearing)
    IN  [lat |-> lat + RoundDiv(angularDist * t.sin, TrigScale),
         lng |-> lon + RoundDiv(angularDist * t.cos, TrigScale)]

\* computeDestinationPoint(lat, lon, distanceMeters, bearing): the point
\* distanceMeters (here millimetres) away along the bearing (degrees); on a
\* survey-sized area at the equator the great-circle step is the planar one,
\* north by d cos(bearing) and east by d sin(bearing), at 111195 m per degree.
computeDestinationPoint(lat, lon, distanceMeters, bearing) ==
    LET angularDist == RoundDiv(distanceMeters * 1000 * UnitsPerMicroDeg, 111195)
        t == TrigOfBearing(bearing)
    IN  [lat |-> lat + RoundDiv(angularDist * t.cos, TrigScale),
         lng |-> lon + RoundDiv(angularDist * t.sin, TrigScale)]

\* ------------------------------------------------------------------ state

VARIABLES
    routes,      \* App: const [routes, setRoutes] = useState<Route[]>([])
    settings,    \* App: const [settings, setSettings] = useState(DEFAULT_SETTINGS)
    nextId,      \* number of generateId() calls made so far (each call gives a fresh id)
    steps,       \* number of user operations handled so far
    drawing,     \* per route id: what the user drew, the coordinates at creation, and
                 \* how far the route is along "created, rotated to 45, rotated to 0"
    lastOp,      \* the handler that ran last and its arguments
    call         \* the last direct call of a geometry-service function and its result

vars == <<routes, settings, nextId, steps, drawing, lastOp, call>>

\* ------------------------------------------------------------------ bounds

\* Routes in the list at any time.
MaxRoutes == 2
\* User operations in a run.
MaxSteps == 4

\* Rotation angles the handle is dragged to (degrees).
Angles == {0, 45}

Pt(lat, lng) == [lat |-> lat, lng |-> lng]

\* What the user draws, as (layer type, layer.getLatLngs()): a tall narrow
\* rectangle, a wide low triangle and a two-point line.
Drawings ==
    { << "polygon", << Pt(0, 0), Pt(0, 2000), Pt(8000, 2000), Pt(8000, 0) >> >>,
      << "polygon", << Pt(0, 0), Pt(0, 6000), Pt(5000, 3000) >> >>,
      << "polyline", << Pt(0, 0), Pt(3000, 3000) >> >> }

\* Positions a waypoint or a home marker is dragged to.
DragTargets == { Pt(1000, 1000) }

\* (field, value) pairs the waypoint table and the edit dialog send to onUpdateWaypoint.
FieldEdits == { <<"altitude", 50>> }

\* setSettings(prev => ({ ...prev, [key]: value })) as the settings panel issues
\* it: the flight mode and the heading mode. The manual heading mode is left out:
\* with headingManual at its default 0 it assigns the headings auto_path does.
SettingEdits ==
    { <<"flightMode", "standard">>, <<"flightMode", "mapping">>,
      <<"headingMode", "auto_path">>, <<"headingMode", "auto_bearing">> }

\* Rows of the waypoint table the user acts on: the first and the last.
EditedRows(waypoints) == {k \in 1..Len(waypoints) : k = 1 \/ k = Len(waypoints)}

\* Names typed into the rename dialog.
NewNames == { <<"Survey">> }

Coords(waypoints) == [i \in 1..Len(waypoints) |-> Pt(waypoints[i].latitude, waypoints[i].longitude)]
Ids(waypoints) == [i \in 1..Len(waypoints) |-> waypoints[i].id]

\* -------------------------------------------------------- Map.tsx: drawing

\* _onCreated: the coordinates handed to onRouteCreated. A polygon's ring is
\* closed; in mapping mode a polygon is replaced by its coverage grid.
onCreatedCoords(layerType, latlngs, currentSettings) ==
    LET closed == IF layerType = "polygon" /\ Len(latlngs) > 2
                  THEN Append(latlngs, latlngs[1]) ELSE latlngs
    IN  IF currentSettings.flightMode = "mapping" /\ layerType = "polygon"
        THEN generateGridWaypoints(closed, currentSettings, 0).value
        ELSE closed

\* What the user drew, as _onCreated sees it before any grid is generated.
drawnRing(layerType, latlngs) ==
    IF layerType = "polygon" /\ Len(latlngs) > 2 THEN Append(latlngs, latlngs[1]) ELSE latlngs

\* ------------------------------------------------------- App.tsx: handlers

\* parseFloat((settings.speedKmh / 3.6).toFixed(2)), in cm/s
speedOf(s) == RoundDiv(s.speedKmh * 1000, 36)

\* handleRouteCreated: the waypoint built for coords[idx]
newWaypoint(c, idx, s) ==
    [ id |-> idx,
      latitude |-> c.lat,
      longitude |-> c.lng,
      altitude |-> s.altitude,
      heading |-> 0,
      curveSize |-> s.curveSize,
      rotationDir |-> 0,
      gimbalMode |-> s.gimbalMode,
      gimbalPitch |-> IF s.flightMode = "mapping" THEN -90 ELSE s.gimbalPitch,
      actionType1 |-> IF s.flightMode = "mapping" THEN 1 ELSE s.action1,
      actionParam1 |-> 0,
      actionType2 |-> -1,
      actionParam2 |-> 0,
      altitudeMode |-> s.altitudeMode,
      speed |-> speedOf(s),
      poiLat |-> 0,
      poiLon |-> 0,
      poiAlt |-> 0,
      poiAltMode |-> 0,
      photoTimeInterval |-> -1,
      photoDistInterval |-> -1 ]

\* heading assignment shared by handleRouteCreated (auto_path keeps heading 0)
withHeadings(waypoints, s) ==
    IF s.headingMode = "auto_bearing" THEN updateWaypointsWithBearings(waypoints)
    ELSE IF s.headingMode = "manual"
         THEN [i \in 1..Len(waypoints) |-> Spread(waypoints[i], [heading |-> s.headingManual])]
         ELSE waypoints

\* handleRouteCreated(coords): the new route
handleRouteCreated(coords, id, routeCount, s) ==
    LET newWaypoints == [idx \in 1..Len(coords) |-> newWaypoint(coords[idx], idx, s)]
        finalWps == withHeadings(newWaypoints, s)
    IN  [ id |-> id,
          name |-> <<"Drawn Route", routeCount + 1>>,
          waypoints |-> finalWps,
          color |-> "#ff5722",
          locked |-> FALSE,
          homePoint |-> Pt(finalWps[1].latitude - 1000, finalWps[1].longitude),
          gridRotation |-> IF s.flightMode = "mapping" THEN Some(0) ELSE Undefined,
          originalPolygon |-> IF s.flightMode = "mapping" THEN Some(coords) ELSE Undefined ]

\* ...route.waypoints[0]: the first waypoint's fields, none when the list is empty
firstWaypoint(route) == IF Len(route.waypoints) > 0 THEN route.waypoints[1] ELSE <<>>

\* toggleRouteLock(id), per route
toggleRouteLock(r, id) == IF r.id = id THEN [r EXCEPT !.locked = ~r.locked] ELSE r

\* handleRotationUpdate: newGridCoords.map((c, idx) => ({ ...route.waypoints[0], ... }))
\* with every waypoint inheriting the first waypoint's id
rotationWaypointsKeepingId(route, newGridCoords, s) ==
    [idx \in 1..Len(newGridCoords) |->
        Spread(firstWaypoint(route),
               [ latitude |-> newGridCoords[idx].lat,
                 longitude |-> newGridCoords[idx].lng,
                 actionType1 |-> 1,
                 gimbalPitch |-> -90,
                 altitude |-> s.altitude ])]

\* handleRotationUpdate: newGridCoords.map((c, idx) => ({ ...route.waypoints[0], ... }))
rotationWaypoints(route, newGridCoords, s) ==
    [idx \in 1..Len(newGridCoords) |->
        Spread(firstWaypoint(route),
               [ id |-> idx,
                 latitude |-> newGridCoords[idx].lat,
                 longitude |-> newGridCoords[idx].lng,
                 actionType1 |-> 1,
                 gimbalPitch |-> -90,
                 altitude |-> s.altitude ])]

\* handleRotationUpdate storing the regenerated grid as the route's polygon
handleRotationUpdateOverwritingPolygon(route, routeId, angle, s) ==
    IF route.id # routeId \/ route.locked THEN route
    ELSE IF ~IsDefined(route.originalPolygon) THEN [route EXCEPT !.gridRotation = Some(angle)]
    ELSE
    LET newGridCoords == generateGridWaypoints(TheValue(route.originalPolygon), s, angle).value
    IN  [route EXCEPT !.waypoints = rotationWaypoints(route, newGridCoords, s),
                      !.gridRotation = Some(angle),
                      !.originalPolygon = Some(newGridCoords)]

\* handleRotationUpdate adding the angle to the route's current rotation
handleRotationUpdateIncremental(route, routeId, angle, s) ==
    IF route.id # routeId \/ route.locked THEN route
    ELSE IF ~IsDefined(route.originalPolygon) THEN [route EXCEPT !.gridRotation = Some(angle)]
    ELSE
    LET total == TheValue(route.gridRotation) + angle
        newGridCoords == generateGridWaypoints(TheValue(route.originalPolygon), s, total).value
    IN  [route EXCEPT !.waypoints = rotationWaypoints(route, newGridCoords, s),
                      !.gridRotation = Some(total)]

\* handleRotationUpdate(routeId, angle), per route
handleRotationUpdate(route, routeId, angle, s) ==
    IF route.id # routeId \/ route.locked THEN route
    ELSE IF ~IsDefined(route.originalPolygon) THEN [route EXCEPT !.gridRotation = Some(angle)]
    ELSE
    LET newGridCoords == generateGridWaypoints(TheValue(route.originalPolygon), s, angle).value
    IN  [route EXCEPT !.waypoints = rotationWaypoints(route, newGridCoords, s),
                      !.gridRotation = Some(angle)]

\* applySettingsToRoutes adding the regenerated grid to the route's waypoints
\* instead of rebuilding them
appliedRouteAppendingGrid(route, s) ==
    LET regenerate == s.flightMode = "mapping" /\ IsDefined(route.gridRotation)
                      /\ IsDefined(route.originalPolygon)
        newGridCoords == generateGridWaypoints(TheValue(route.originalPolygon), s,
                                               TheValue(route.gridRotation)).value
        currentWaypoints ==
            IF regenerate
            THEN route.waypoints \o
                 [idx \in 1..Len(newGridCoords) |->
                    Spread(firstWaypoint(route),
                           [ id |-> Len(route.waypoints) + idx,
                             latitude |-> newGridCoords[idx].lat,
                             longitude |-> newGridCoords[idx].lng,
                             actionType1 |-> 1,
                             gimbalPitch |-> -90,
                             heading |-> 0,
                             altitude |-> s.altitude ])]
            ELSE route.waypoints
        updatedWaypoints ==
            [i \in 1..Len(currentWaypoints) |->
                Spread(currentWaypoints[i],
                       [ altitude |-> s.altitude,
                         speed |-> speedOf(s),
                         curveSize |-> s.curveSize,
                         gimbalMode |-> s.gimbalMode,
                         gimbalPitch |-> IF s.flightMode = "mapping" THEN -90 ELSE s.gimbalPitch,
                         altitudeMode |-> s.altitudeMode,
                         actionType1 |-> IF s.flightMode = "mapping" THEN 1 ELSE s.action1 ])]
        headed ==
            IF s.headingMode = "auto_bearing" THEN updateWaypointsWithBearings(updatedWaypoints)
            ELSE IF s.headingMode = "manual"
                 THEN [i \in 1..Len(updatedWaypoints) |->
                         Spread(updatedWaypoints[i], [heading |-> s.headingManual])]
                 ELSE [i \in 1..Len(updatedWaypoints) |-> Spread(updatedWaypoints[i], [heading |-> 0])]
    IN  [route EXCEPT !.waypoints = headed]

\* applySettingsToRoutes, the body of the map callback past the lock check
appliedRoute(route, s) ==
    LET regenerate == s.flightMode = "mapping" /\ IsDefined(route.gridRotation)
                      /\ IsDefined(route.originalPolygon)
        newGridCoords == generateGridWaypoints(TheValue(route.originalPolygon), s,
                                               TheValue(route.gridRotation)).value
        currentWaypoints ==
            IF regenerate
            THEN [idx \in 1..Len(newGridCoords) |->
                    Spread(firstWaypoint(route),
                           [ id |-> idx,
                             latitude |-> newGridCoords[idx].lat,
                             longitude |-> newGridCoords[idx].lng,
                             actionType1 |-> 1,
                             gimbalPitch |-> -90,
                             heading |-> 0,
                             altitude |-> s.altitude ])]
            ELSE route.waypoints
        updatedWaypoints ==
            [i \in 1..Len(currentWaypoints) |->
                Spread(currentWaypoints[i],
                       [ altitude |-> s.altitude,
                         speed |-> speedOf(s),
                         curveSize |-> s.curveSize,
                         gimbalMode |-> s.gimbalMode,
                         gimbalPitch |-> IF s.flightMode = "mapping" THEN -90 ELSE s.gimbalPitch,
                         altitudeMode |-> s.altitudeMode,
                         actionType1 |-> IF s.flightMode = "mapping" THEN 1 ELSE s.action1 ])]
        headed ==
            IF s.headingMode = "auto_bearing" THEN updateWaypointsWithBearings(updatedWaypoints)
            ELSE IF s.headingMode = "manual"
                 THEN [i \in 1..Len(updatedWaypoints) |->
                         Spread(updatedWaypoints[i], [heading |-> s.headingManual])]
                 ELSE [i \in 1..Len(updatedWaypoints) |-> Spread(updatedWaypoints[i], [heading |-> 0])]
    IN  [route EXCEPT !.waypoints = headed]

\* applySettingsToRoutes applied to a route whatever its lock
applySettingsIgnoringLock(route, s) == appliedRoute(route, s)

\* applySettingsToRoutes, per route: "Skip locked routes"
applySettingsToRoute(route, s) ==
    IF route.locked THEN route ELSE appliedRoute(route, s)

\* the auto_bearing refresh that ends the waypoint handlers
refreshBearings(waypoints, s) ==
    IF s.headingMode = "auto_bearing" THEN updateWaypointsWithBearings(waypoints) ELSE waypoints

\* A waypoint move that does not look at the lock.
handleWaypointUpdateIgnoringLock(route, routeId, wpId, lat, lng, s) ==
    IF route.id # routeId THEN route
    ELSE
    LET updatedWps == [i \in 1..Len(route.waypoints) |->
                         IF route.waypoints[i].id = wpId
                         THEN Spread(route.waypoints[i], [latitude |-> lat, longitude |-> lng])
                         ELSE route.waypoints[i]]
    IN  [route EXCEPT !.waypoints = refreshBearings(updatedWps, s)]

\* handleWaypointUpdate(routeId, wpId, lat, lng), per route
handleWaypointUpdate(route, routeId, wpId, lat, lng, s) ==
    IF route.id # routeId THEN route
    ELSE IF route.locked THEN route
    ELSE
    LET updatedWps == [i \in 1..Len(route.waypoints) |->
                         IF route.waypoints[i].id = wpId
                         THEN Spread(route.waypoints[i], [latitude |-> lat, longitude |-> lng])
                         ELSE route.waypoints[i]]
    IN  [route EXCEPT !.waypoints = refreshBearings(updatedWps, s)]

\* handleHomePointUpdate(routeId, lat, lng), per route
handleHomePointUpdate(r, routeId, lat, lng) ==
    IF r.id = routeId THEN [r EXCEPT !.homePoint = Pt(lat, lng)] ELSE r

\* handleDetailedUpdate(routeId, wpId, field, value), per route
handleDetailedUpdate(route, routeId, wpId, field, value) ==
    IF route.id # routeId THEN route
    ELSE IF route.locked THEN route
    ELSE [route EXCEPT !.waypoints =
            [i \in 1..Len(route.waypoints) |->
                IF route.waypoints[i].id = wpId
                THEN Spread(route.waypoints[i], (field :> value))
                ELSE route.waypoints[i]]]

\* handleDeleteWaypoint(routeId, wpId), per route
handleDeleteWaypoint(route, routeId, wpId, s) ==
    IF route.id # routeId \/ route.locked THEN route
    ELSE
    LET filtered == SelectSeq(route.waypoints, LAMBDA wp : wp.id # wpId)
    IN  [route EXCEPT !.waypoints = refreshBearings(filtered, s)]

\* newWps with the entry at j copied over the entry at i
overwritten(wps, i, j) ==
    [k \in 1..Len(wps) |-> IF k = i THEN wps[j] ELSE wps[k]]

\* newWps with the entries at i and j exchanged
swapped(wps, i, j) ==
    [k \in 1..Len(wps) |-> IF k = i THEN wps[j] ELSE IF k = j THEN wps[i] ELSE wps[k]]

\* route.waypoints.findIndex(wp => wp.id === wpId), 1-based, 0 when absent
findIndex(wps, wpId) ==
    IF \E i \in 1..Len(wps) : wps[i].id = wpId
    THEN CHOOSE i \in 1..Len(wps) : wps[i].id = wpId /\ \A j \in 1..(i - 1) : wps[j].id # wpId
    ELSE 0

\* handleReorderWaypoint(routeId, wpId, direction), per route
handleReorderWaypoint(route, routeId, wpId, direction, s) ==
    IF route.id # routeId \/ route.locked THEN route
    ELSE
    LET index == findIndex(route.waypoints, wpId)
    IN  IF index = 0 THEN route
        ELSE IF direction = "up" /\ index > 1
        THEN [route EXCEPT !.waypoints = refreshBearings(swapped(route.waypoints, index, index - 1), s)]
        ELSE IF direction = "down" /\ index < Len(route.waypoints)
        THEN [route EXCEPT !.waypoints = refreshBearings(swapped(route.waypoints, index, index + 1), s)]
        ELSE route

\* handleConfirmRename, per route (currentName.trim() is non-empty)
handleConfirmRename(r, routeId, currentName) ==
    IF r.id = routeId THEN [r EXCEPT !.name = currentName] ELSE r

\* handleDeleteRoute(id)
handleDeleteRoute(rs, id) == SelectSeq(rs, LAMBDA r : r.id # id)

\* handleUndo
handleUndo(rs) == IF Len(rs) = 0 THEN rs ELSE SubSeq(rs, 1, Len(rs) - 1)

\* --------------------------------------------------- fileService.ts: import

\* the waypoint parseCSV and parseKML build for one coordinate pair
importedWaypoint(id, lat, lon) ==
    [ id |-> id, latitude |-> lat, longitude |-> lon, altitude |-> 30, heading |-> 0,
      curveSize |-> 0, rotationDir |-> 0, gimbalMode |-> 0, gimbalPitch |-> 0,
      actionType1 |-> -1, actionParam1 |-> 0, actionType2 |-> -1, actionParam2 |-> 0,
      altitudeMode |-> 1, speed |-> 0, poiLat |-> 0, poiLon |-> 0, poiAlt |-> 0,
      poiAltMode |-> 0, photoTimeInterval |-> -1, photoDistInterval |-> -1 ]

\* parseCSV: rows lacking a latitude or a longitude are skipped, the others keep
\* their row number as id
parseCSV(rows) ==
    LET kept == SelectSeq([i \in 1..Len(rows) |-> [index |-> i, row |-> rows[i]]],
                          LAMBDA e : IsDefined(e.row.latitude) /\ IsDefined(e.row.longitude))
    IN  [k \in 1..Len(kept) |->
            importedWaypoint(kept[k].index, TheValue(kept[k].row.latitude),
                             TheValue(kept[k].row.longitude))]

\* parseKML, LineString branch: parts are numbered, then those whose latitude is
\* not a number are filtered out
lineWps(parts) ==
    LET kept == SelectSeq([i \in 1..Len(parts) |-> [index |-> i, part |-> parts[i]]],
                          LAMBDA e : IsDefined(e.part.latitude))
    IN  [k \in 1..Len(kept) |->
            importedWaypoint(kept[k].index, TheValue(kept[k].part.latitude),
                             TheValue(kept[k].part.longitude))]

\* parseKML, Point branch: the points of all placemarks, numbered as collected
pointWaypoints(placemarks) ==
    LET points == SelectSeq(placemarks, LAMBDA pm : pm.kind = "Point")
    IN  [k \in 1..Len(points) |->
            importedWaypoint(k, TheValue(points[k].parts[1].latitude),
                             TheValue(points[k].parts[1].longitude))]

\* parseKML(file): one route per non-empty LineString, then one for the points;
\* ids are the fresh ids firstId, firstId + 1, ...
parseKML(file, firstId) ==
    LET lines == SelectSeq(file.placemarks,
                           LAMBDA pm : pm.kind = "LineString" /\ Len(lineWps(pm.parts)) > 0)
        lineRoutes == [k \in 1..Len(lines) |->
                         [ id |-> firstId + k - 1,
                           name |-> lines[k].name,
                           waypoints |-> lineWps(lines[k].parts),
                           color |-> "#3388ff",
                           locked |-> FALSE,
                           homePoint |-> Pt(lineWps(lines[k].parts)[1].latitude,
                                            lineWps(lines[k].parts)[1].longitude),
                           gridRotation |-> Undefined,
                           originalPolygon |-> Undefined ]]
        pts == pointWaypoints(file.placemarks)
    IN  IF Len(pts) > 0
        THEN Append(lineRoutes,
                    [ id |-> firstId + Len(lines),
                      name |-> file.name,
                      waypoints |-> pts,
                      color |-> "#ff3388",
                      locked |-> FALSE,
                      homePoint |-> Pt(pts[1].latitude, pts[1].longitude),
                      gridRotation |-> Undefined,
                      originalPolygon |-> Undefined ])
        ELSE lineRoutes

\* handleImport, one file: the routes it contributes
importedRoutes(file, firstId) ==
    IF file.ext = "csv"
    THEN LET wps == parseCSV(file.rows)
         IN  IF Len(wps) > 0
             THEN << [ id |-> firstId,
                       name |-> file.name,
                       waypoints |-> wps,
                       color |-> "#7f7f7f",
                       locked |-> FALSE,
                       homePoint |-> Pt(wps[1].latitude - 1000, wps[1].longitude),
                       gridRotation |-> Undefined,
                       originalPolygon |-> Undefined ] >>
             ELSE << >>
    ELSE IF file.ext = "kml"
    THEN LET kmlRoutes == parseKML(file, firstId)
         IN  [k \in 1..Len(kmlRoutes) |->
                [kmlRoutes[k] EXCEPT !.locked = FALSE,
                    !.homePoint = Pt(kmlRoutes[k].waypoints[1].latitude - 1000,
                                     kmlRoutes[k].waypoints[1].longitude)]]
    ELSE << >>

\* A coordinate cell of an imported file: a number, or missing / not a number.
Cell(lat, lon) == [latitude |-> Some(lat), longitude |-> Some(lon)]
NoLatitude(lon) == [latitude |-> Undefined, longitude |-> Some(lon)]

\* Files the user imports.
ImportFiles ==
    { [ ext |-> "csv", name |-> <<"mission">>,
        rows |-> << Cell(100, 100), NoLatitude(200), Cell(300, 300) >>,
        placemarks |-> << >> ],
      [ ext |-> "kml", name |-> <<"track">>,
        rows |-> << >>,
        placemarks |-> << [ name |-> <<"Line">>, kind |-> "LineString",
                            parts |-> << Cell(0, 0), NoLatitude(10), Cell(500, 500) >> ],
                          [ name |-> <<"Tower">>, kind |-> "Point",
                            parts |-> << Cell(700, 700) >> ] >> ] }

\* ---------------------------------------------------------------- actions

Idle == [fn |-> "none", polygonCoords |-> <<>>, settings |-> DEFAULT_SETTINGS,
         rotationAngle |-> 0, result |-> Returned(<<>>, 0)]

Op(op, routeId, wpId, arg, changed) ==
    [op |-> op, routeId |-> routeId, wpId |-> wpId, arg |-> arg, changed |-> changed]

Init ==
    /\ routes = << >>
    /\ settings = DEFAULT_SETTINGS
    /\ nextId = 0
    /\ steps = 0
    /\ drawing = << >>
    /\ lastOp = Op("none", 0, 0, 0, FALSE)
    /\ call = Idle

\* the run has operations left
CanStep == steps < MaxSteps

\* one more user operation handled
Tick == steps' = steps + 1

\* the drawing records of the routes still in the list, each marked as no longer
\* in the state it was created in unless its id is in keep
Track(newRoutes, keep) ==
    [id \in (DOMAIN drawing) \cap {newRoutes[i].id : i \in 1..Len(newRoutes)} |->
        IF id \in keep THEN drawing[id] ELSE [drawing[id] EXCEPT !.phase = "other"]]

\* Sidebar: setSettings(prev => ({ ...prev, [key]: value }))
SetSettings ==
    /\ CanStep
    /\ \E e \in SettingEdits :
            /\ settings[e[1]] # e[2]
            /\ settings' = [settings EXCEPT ![e[1]] = e[2]]
            /\ drawing' = Track(routes, {})
            /\ lastOp' = Op("setSettings", 0, 0, e, TRUE)
            /\ Tick /\ UNCHANGED <<routes, nextId, call>>

\* Map._onCreated followed by App.handleRouteCreated
Draw ==
    /\ CanStep
    /\ \E d \in Drawings :
            /\ Len(routes) < MaxRoutes
            /\ LET layerType == d[1]
                   latlngs == d[2]
                   coords == onCreatedCoords(layerType, latlngs, settings)
                   newRoute == handleRouteCreated(coords, nextId + 1, Len(routes), settings)
               IN  /\ routes' = Append(routes, newRoute)
                   /\ drawing' = Spread(Track(routes, DOMAIN drawing),
                                        ((nextId + 1) :>
                                            [ layerType |-> layerType,
                                              mode |-> settings.flightMode,
                                              drawn |-> latlngs,
                                              created |-> Coords(newRoute.waypoints),
                                              phase |-> "created" ]))
            /\ nextId' = nextId + 1
            /\ lastOp' = Op("draw", nextId + 1, 0, d[1], TRUE)
            /\ Tick /\ UNCHANGED <<settings, call>>

\* App.handleImport of one file
Import ==
    /\ CanStep
    /\ \E file \in ImportFiles :
            LET new == importedRoutes(file, nextId + 1)
            IN  /\ Len(routes) + Len(new) <= MaxRoutes
                /\ routes' = (IF Len(new) > 0 THEN routes \o new ELSE routes)
                /\ nextId' = nextId + Len(new)
                /\ drawing' = Track(routes, DOMAIN drawing)
                /\ lastOp' = Op("import", nextId + 1, 0, file.ext, Len(new) > 0)
                /\ Tick /\ UNCHANGED <<settings, call>>

\* Map.GridRotationHandle (shown for a coverage route in mapping mode) calling
\* App.handleRotationUpdate with the absolute angle
Rotate ==
    /\ CanStep
    /\ \E i \in 1..Len(routes), angle \in Angles :
            /\ settings.flightMode = "mapping"
            /\ IsDefined(routes[i].gridRotation)
            /\ LET routeId == routes[i].id
                   step == IF routeId \notin DOMAIN drawing \/ routes[i].locked THEN "other"
                           ELSE IF drawing[routeId].phase = "created" /\ angle = 45 THEN "rot45"
                           ELSE IF drawing[routeId].phase = "rot45" /\ angle = 0 THEN "rot45_0"
                           ELSE "other"
               IN  /\ routes' = [n \in 1..Len(routes) |-> handleRotationUpdate(routes[n], routeId, angle, settings)]
                   /\ drawing' = [id \in DOMAIN drawing |->
                                    IF id = routeId THEN [drawing[id] EXCEPT !.phase = step]
                                    ELSE drawing[id]]
                   /\ lastOp' = Op("rotate", routeId, 0, angle, routes' # routes)
            /\ Tick /\ UNCHANGED <<settings, nextId, call>>

\* App.applySettingsToRoutes
ApplySettings ==
    /\ CanStep
    /\ routes' = [n \in 1..Len(routes) |-> applySettingsToRoute(routes[n], settings)]
    /\ drawing' = Track(routes, {})
    /\ lastOp' = Op("applySettings", 0, 0, 0, routes' # routes)
    /\ Tick /\ UNCHANGED <<settings, nextId, call>>

\* App.toggleRouteLock
ToggleLock ==
    /\ CanStep
    /\ \E i \in 1..Len(routes) :
            LET routeId == routes[i].id
            IN  /\ routes' = [n \in 1..Len(routes) |-> toggleRouteLock(routes[n], routeId)]
                /\ drawing' = Track(routes, (DOMAIN drawing) \ {routeId})
                /\ lastOp' = Op("toggleLock", routeId, 0, 0, TRUE)
                /\ Tick /\ UNCHANGED <<settings, nextId, call>>

\* App.handleWaypointUpdate (a waypoint marker dragged on the map)
MoveWaypoint ==
    /\ CanStep
    /\ \E i \in 1..Len(routes), target \in DragTargets :
          \E k \in EditedRows(routes[i].waypoints) :
            LET routeId == routes[i].id
                wpId == routes[i].waypoints[k].id
            IN  /\ routes' = [n \in 1..Len(routes) |-> handleWaypointUpdate(routes[n], routeId, wpId,
                                                                        target.lat, target.lng, settings)]
                /\ drawing' = Track(routes, (DOMAIN drawing) \ {routeId})
                /\ lastOp' = Op("moveWaypoint", routeId, wpId, target, routes' # routes)
                /\ Tick /\ UNCHANGED <<settings, nextId, call>>

\* App.handleDetailedUpdate (waypoint table cell or edit dialog)
EditWaypoint ==
    /\ CanStep
    /\ \E i \in 1..Len(routes), e \in FieldEdits :
          \E k \in EditedRows(routes[i].waypoints) :
            LET routeId == routes[i].id
                wpId == routes[i].waypoints[k].id
            IN  /\ routes' = [n \in 1..Len(routes) |-> handleDetailedUpdate(routes[n], routeId, wpId, e[1], e[2])]
                /\ drawing' = Track(routes, (DOMAIN drawing) \ {routeId})
                /\ lastOp' = Op("editWaypoint", routeId, wpId, e, routes' # routes)
                /\ Tick /\ UNCHANGED <<settings, nextId, call>>

\* App.handleDeleteWaypoint
DeleteWaypoint ==
    /\ CanStep
    /\ \E i \in 1..Len(routes) :
          \E k \in EditedRows(routes[i].waypoints) :
            LET routeId == routes[i].id
                wpId == routes[i].waypoints[k].id
            IN  /\ routes' = [n \in 1..Len(routes) |-> handleDeleteWaypoint(routes[n], routeId, wpId, settings)]
                /\ drawing' = Track(routes, (DOMAIN drawing) \ {routeId})
                /\ lastOp' = Op("deleteWaypoint", routeId, wpId, 0, routes' # routes)
                /\ Tick /\ UNCHANGED <<settings, nextId, call>>

\* App.handleReorderWaypoint
ReorderWaypoint ==
    /\ CanStep
    /\ \E i \in 1..Len(routes), direction \in {"up", "down"} :
          \E k \in EditedRows(routes[i].waypoints) :
            LET routeId == routes[i].id
                wpId == routes[i].waypoints[k].id
            IN  /\ routes' = [n \in 1..Len(routes) |-> handleReorderWaypoint(routes[n], routeId, wpId,
                                                                         direction, settings)]
                /\ drawing' = Track(routes, (DOMAIN drawing) \ {routeId})
                /\ lastOp' = Op("reorderWaypoint", routeId, wpId, direction, routes' # routes)
                /\ Tick /\ UNCHANGED <<settings, nextId, call>>

\* App.handleHomePointUpdate (the home marker dragged on the map)
MoveHomePoint ==
    /\ CanStep
    /\ \E i \in 1..Len(routes), target \in DragTargets :
            LET routeId == routes[i].id
            IN  /\ routes[i].homePoint # target
                /\ routes' = [n \in 1..Len(routes) |-> handleHomePointUpdate(routes[n], routeId, target.lat, target.lng)]
                /\ drawing' = Track(routes, (DOMAIN drawing) \ {routeId})
                /\ lastOp' = Op("moveHomePoint", routeId, 0, target, TRUE)
                /\ Tick /\ UNCHANGED <<settings, nextId, call>>

\* App.handleConfirmRename
Rename ==
    /\ CanStep
    /\ \E i \in 1..Len(routes), currentName \in NewNames :
            LET routeId == routes[i].id
            IN  /\ routes[i].name # currentName
                /\ routes' = [n \in 1..Len(routes) |-> handleConfirmRename(routes[n], routeId, currentName)]
                /\ drawing' = Track(routes, (DOMAIN drawing) \ {routeId})
                /\ lastOp' = Op("rename", routeId, 0, currentName, TRUE)
                /\ Tick /\ UNCHANGED <<settings, nextId, call>>

\* App.handleDeleteRoute
DeleteRoute ==
    /\ CanStep
    /\ \E i \in 1..Len(routes) :
            /\ routes' = handleDeleteRoute(routes, routes[i].id)
            /\ drawing' = Track(routes', DOMAIN drawing)
            /\ lastOp' = Op("deleteRoute", routes[i].id, 0, 0, TRUE)
            /\ Tick /\ UNCHANGED <<settings, nextId, call>>

\* App.handleUndo
Undo ==
    /\ CanStep
    /\ routes' = handleUndo(routes)
    /\ drawing' = Track(routes', DOMAIN drawing)
    /\ lastOp' = Op("undo", 0, 0, 0, routes' # routes)
    /\ Tick /\ UNCHANGED <<settings, nextId, call>>

\* Sidebar: onClearRoutes
ClearRoutes ==
    /\ CanStep
    /\ routes' = << >>
    /\ drawing' = << >>
    /\ lastOp' = Op("clearRoutes", 0, 0, 0, routes # << >>)
    /\ Tick /\ UNCHANGED <<settings, nextId, call>>

Next ==
    \/ SetSettings
    \/ Draw
    \/ Import
    \/ Rotate
    \/ ApplySettings
    \/ ToggleLock
    \/ MoveWaypoint
    \/ EditWaypoint
    \/ DeleteWaypoint
    \/ ReorderWaypoint
    \/ MoveHomePoint
    \/ Rename
    \/ DeleteRoute
    \/ Undo
    \/ ClearRoutes

Spec == Init /\ [][Next]_vars

\* ------------------------------------- the grid generators called directly

\* Vertex lists handed to the generators: empty, one vertex, two vertices, a
\* three-entry list that ends where it starts, an open triangle, a closed
\* square, a tall narrow strip, a concave U whose two prongs point north, a
\* square with a V notch in its north edge whose tip lies on the second scan
\* line of a 10 m flight, and a low rectangle 36.80 m wide (four photo spacings
\* of a 1 m flight).
GridPolygons ==
    { << >>,
      << Pt(0, 0) >>,
      << Pt(0, 0), Pt(3000, 3000) >>,
      << Pt(0, 0), Pt(3000, 3000), Pt(0, 0) >>,
      << Pt(0, 0), Pt(0, 6000), Pt(5000, 3000) >>,
      << Pt(0, 0), Pt(0, 3000), Pt(3000, 3000), Pt(3000, 0), Pt(0, 0) >>,
      << Pt(0, 0), Pt(0, 40), Pt(6000, 40), Pt(6000, 0) >>,
      << Pt(0, 0), Pt(0, 3000), Pt(3000, 3000), Pt(3000, 2000),
         Pt(1000, 2000), Pt(1000, 1000), Pt(3000, 1000), Pt(3000, 0) >>,
      << Pt(0, 0), Pt(3000, 0), Pt(3000, 1000), Pt(2346, 1500),
         Pt(3000, 2000), Pt(3000, 3000), Pt(0, 3000) >>,
      << Pt(0, 0), Pt(0, 331), Pt(30, 331), Pt(30, 0) >> }

\* Settings handed to the generators: the defaults (lane spacing 52.26 m), a
\* 10 m flight, full lateral overlap (lane spacing 0), and 1 m flights with
\* lane spacings of 0.121 m and 0.087 m, and a 10 m flight with the
\* cross-hatch pattern selected.
GridSettings ==
    { DEFAULT_SETTINGS,
      [DEFAULT_SETTINGS EXCEPT !.altitude = 10],
      [DEFAULT_SETTINGS EXCEPT !.mappingOverlapH = 100],
      [DEFAULT_SETTINGS EXCEPT !.altitude = 1, !.mappingOverlapH = 93],
      [DEFAULT_SETTINGS EXCEPT !.altitude = 1, !.mappingOverlapH = 95],
      [DEFAULT_SETTINGS EXCEPT !.altitude = 10, !.mappingPattern = "crosshatch"] }

\* Rotation angles handed to the generators (degrees).
GridAngles == {0, 45, 90}

\* The arguments of a call not made yet.
Pending(polygonCoords, s, rotationAngle) ==
    [ fn |-> "pending", polygonCoords |-> polygonCoords, settings |-> s,
      rotationAngle |-> rotationAngle, result |-> Returned(<<>>, 0) ]

InitGrid ==
    /\ routes = << >>
    /\ settings = DEFAULT_SETTINGS
    /\ nextId = 0
    /\ steps = 0
    /\ drawing = << >>
    /\ lastOp = Op("none", 0, 0, 0, FALSE)
    /\ call \in {Pending(p, s, a) : p \in GridPolygons, s \in GridSettings, a \in GridAngles}

\* generateGridWaypoints(polygonCoords, settings, rotationAngle), lines 274-396
CallGrid ==
    /\ call.fn = "pending"
    /\ call' = [call EXCEPT !.fn = "generateGridWaypoints",
                            !.result = generateGridWaypoints(call.polygonCoords, call.settings,
                                                             call.rotationAngle)]
    /\ UNCHANGED <<routes, settings, nextId, steps, drawing, lastOp>>

\* generateGridWaypoints(polygonCoords, settings, rotationAngle), lines 617-697
CallGridZigZag ==
    /\ call.fn = "pending"
    /\ call' = [call EXCEPT !.fn = "generateGridWaypointsZigZag",
                            !.result = generateGridWaypointsZigZag(call.polygonCoords, call.settings,
                                                                   call.rotationAngle)]
    /\ UNCHANGED <<routes, settings, nextId, steps, drawing, lastOp>>

NextGrid ==
    \/ CallGrid
    \/ CallGridZigZag

SpecGrid == InitGrid /\ [][NextGrid]_vars

\* ------------------------------------------- the statistics called directly

\* A waypoint as estimateRouteStats reads it.
StatWp(lat, lng, speed, actionType1, actionParam1, photoTimeInterval) ==
    [ latitude |-> lat, longitude |-> lng, speed |-> speed, actionType1 |-> actionType1,
      actionParam1 |-> actionParam1, photoTimeInterval |-> photoTimeInterval ]

\* A route as estimateRouteStats reads it.
StatRoute(id, homePoint, waypoints) == [id |-> id, homePoint |-> homePoint, waypoints |-> waypoints]

\* Routes handed to the estimators (8993 units are 100 m, 1000 units 11.1 m):
\*   r1  two waypoints 100 m apart, home 11.1 m south of the first, 5 m/s, no actions
\*   r2  three waypoints 100 m apart, 5 m/s, a photo every 30 s on each
\*   r3  StartRecording, StartRecording, StopRecording
\*   r4  Stay 10 s on the first waypoint, Stay 7 s on the last
\*   r5  waypoint speeds 2.5 m/s, 0 and 5 m/s
\*   r6  Photo on the first waypoint, StartRecording on the last
\*   r7  no waypoints
StatsRoute ==
    [ r1 |-> StatRoute("r1", Pt(-1000, 0),
                << StatWp(0, 0, 500, -1, 0, -1), StatWp(0, 8993, 500, -1, 0, -1) >>),
      r2 |-> StatRoute("r2", Pt(0, 0),
                << StatWp(0, 0, 500, -1, 0, 30), StatWp(0, 8993, 500, -1, 0, 30),
                   StatWp(0, 17986, 500, -1, 0, 30) >>),
      r3 |-> StatRoute("r3", Pt(0, -1000),
                << StatWp(0, 0, 500, 2, 0, -1), StatWp(0, 4000, 500, 2, 0, -1),
                   StatWp(0, 8000, 500, 3, 0, -1) >>),
      r4 |-> StatRoute("r4", Pt(1000, 0),
                << StatWp(0, 0, 500, 0, 10, -1), StatWp(3000, 4000, 500, 0, 7, -1) >>),
      r5 |-> StatRoute("r5", Pt(0, 0),
                << StatWp(0, 1000, 250, -1, 0, -1), StatWp(0, 5000, 0, -1, 0, -1),
                   StatWp(4000, 5000, 500, -1, 0, -1) >>),
      r6 |-> StatRoute("r6", Pt(0, 0),
                << StatWp(2000, 0, 500, 1, 0, -1), StatWp(2000, 6000, 500, 2, 0, -1) >>),
      r7 |-> StatRoute("r7", Pt(0, 0), << >>) ]

\* Route lists handed to the estimators; the ids in a list are distinct.
StatsRouteLists ==
    LET R == StatsRoute
    IN  { << >>, <<R.r1>>, <<R.r2>>, <<R.r3>>, <<R.r4>>, <<R.r5>>, <<R.r6>>, <<R.r7>>,
          <<R.r1, R.r2>>, <<R.r2, R.r1>>, <<R.r3, R.r4>>, <<R.r4, R.r5>>, <<R.r5, R.r6>>,
          <<R.r6, R.r7>>, <<R.r2, R.r5>>, <<R.r1, R.r4, R.r6>> }

\* Settings handed to the estimators: 18 km/h (5 m/s) or 0, and the finish
\* actions return-to-home (1), none (0) and land (2).
StatsSettings ==
    { [DEFAULT_SETTINGS EXCEPT !.speedKmh = v, !.finishAction = f] : v \in {18, 0}, f \in {1, 0, 2} }

\* The route filter: 'all' or a route id.
StatsTargets == {"all", "r1", "r4"}

NoStats == [totalDistance |-> 0, totalTimeMinutes |-> 0, photoCount |-> 0, videoCount |-> 0]

InitStats ==
    /\ routes \in StatsRouteLists
    /\ settings \in StatsSettings
    /\ nextId = 0
    /\ steps = 0
    /\ drawing = << >>
    /\ lastOp = Op("none", 0, 0, 0, FALSE)
    /\ call \in {[fn |-> "pending", targetRouteId |-> t, result |-> NoStats] : t \in StatsTargets}

\* estimateRouteStats(routes, settings, selectedStatsRouteId), lines 401-476
CallStats ==
    /\ call.fn = "pending"
    /\ call' = [call EXCEPT !.fn = "estimateRouteStats",
                            !.result = estimateRouteStats(routes, settings, call.targetRouteId)]
    /\ UNCHANGED <<routes, settings, nextId, steps, drawing, lastOp>>

\* estimateRouteStats(routes, settings, selectedStatsRouteId), lines 702-778
CallStatsBySegment ==
    /\ call.fn = "pending"
    /\ call' = [call EXCEPT !.fn = "estimateRouteStatsBySegment",
                            !.result = estimateRouteStatsBySegment(routes, settings, call.targetRouteId)]
    /\ UNCHANGED <<routes, settings, nextId, steps, drawing, lastOp>>

NextStats ==
    \/ CallStats
    \/ CallStatsBySegment

SpecStats == InitStats /\ [][NextStats]_vars

\* ----------------------------------------- the geodesy functions called directly

\* Start points (1e-7 degree), distances (millimetres: 0, 1 m, 25 m, 100 m) and
\* bearings (degrees) handed to computeDestinationPoint.
GeoPoints == { Pt(0, 0), Pt(3000, -2000), Pt(-5000, 8000) }
GeoDistances == { 0, 1000, 25000, 100000 }
GeoBearings == { 0, 45, 90, 135, 180, 225, 270, 315, 360 }

InitGeo ==
    /\ routes = << >>
    /\ settings = DEFAULT_SETTINGS
    /\ nextId = 0
    /\ steps = 0
    /\ drawing = << >>
    /\ lastOp = Op("none", 0, 0, 0, FALSE)
    /\ call \in {[fn |-> "pending", from |-> a, distanceMeters |-> d, bearing |-> b,
                  destination |-> a, distanceBack |-> 0, bearingBack |-> 0] :
                    a \in GeoPoints, d \in GeoDistances, b \in GeoBearings}

\* computeDestinationPoint(lat, lon, distanceMeters, bearing)
CallDestination ==
    /\ call.fn = "pending"
    /\ call' = [call EXCEPT !.fn = "computeDestinationPoint",
                            !.destination = computeDestinationPoint(call.from.lat, call.from.lng,
                                                                    call.distanceMeters, call.bearing)]
    /\ UNCHANGED <<routes, settings, nextId, steps, drawing, lastOp>>

\* calculateDistance and calculateBearing from the start point to the destination
CallMeasureBack ==
    /\ call.fn = "computeDestinationPoint"
    /\ call' = [call EXCEPT !.fn = "measured",
                            !.distanceBack = calculateDistance(call.from.lat, call.from.lng,
                                                               call.destination.lat, call.destination.lng),
                            !.bearingBack = calculateBearing(call.from.lat, call.from.lng,
                                                             call.destination.lat, call.destination.lng)]
    /\ UNCHANGED <<routes, settings, nextId, steps, drawing, lastOp>>

NextGeo ==
    \/ CallDestination
    \/ CallMeasureBack

SpecGeo == InitGeo /\ [][NextGeo]_vars

\* ------------------------------------------- editing a route drawn in mapping mode

\* The application after the user switched to mapping mode and drew one route:
\* setSettings('flightMode', 'mapping'), then _onCreated and handleRouteCreated.
InitSurvey ==
    \E d \in Drawings :
        LET s == [DEFAULT_SETTINGS EXCEPT !.flightMode = "mapping"]
            coords == onCreatedCoords(d[1], d[2], s)
            newRoute == handleRouteCreated(coords, 1, 0, s)
        IN  /\ routes = << newRoute >>
            /\ settings = s
            /\ nextId = 1
            /\ steps = 0
            /\ drawing = (1 :> [ layerType |-> d[1], mode |-> "mapping", drawn |-> d[2],
                                 created |-> Coords(newRoute.waypoints), phase |-> "created" ])
            /\ lastOp = Op("draw", 1, 0, d[1], TRUE)
            /\ call = Idle

\* The operations of the waypoint table, the rotation handle and the settings panel.
NextSurvey ==
    \/ DeleteWaypoint
    \/ Rotate
    \/ ApplySettings
    \/ SetSettings

SpecSurvey == InitSurvey /\ [][NextSurvey]_vars

\* ------------------------------------------------------ App.tsx: handleImport

\* Files of a selection: those of ImportFiles, readable or not (file.text() or
\* Papa.parse failing), and a file of another type.
ImportBatchFiles ==
    { Spread(f, [readable |-> b]) : f \in ImportFiles, b \in BOOLEAN }
    \cup { [ ext |-> "txt", name |-> <<"notes">>, rows |-> << >>, placemarks |-> << >>,
             readable |-> TRUE ] }

\* The FileList handed to handleImport: one, two or three files.
ImportBatches ==
    UNION { [1..n -> ImportBatchFiles] : n \in {1, 2, 3} }

\* what one of the importPromises resolves to
Unsettled == [state |-> "pending", routes |-> << >>]
Null == [state |-> "null", routes |-> << >>]
Resolved(rs) == [state |-> "routes", routes |-> rs]

\* the async callback of fileArray.map: anything thrown while parsing is caught
\* and the promise resolves to null; so does a file with nothing to import
importPromise(file, firstId) ==
    IF ~file.readable THEN Null
    ELSE IF file.ext = "csv"
         THEN (IF Len(importedRoutes(file, firstId)) > 0
               THEN Resolved(importedRoutes(file, firstId)) ELSE Null)
    ELSE IF file.ext = "kml" THEN Resolved(importedRoutes(file, firstId))
    ELSE Null

\* results.flat().filter(r => r !== null), with every null result dropping the whole batch
RECURSIVE validNewRoutesAllOrNothing(_)
validNewRoutesAllOrNothing(results) ==
    IF \E i \in 1..Len(results) : results[i].state = "null" THEN << >>
    ELSE IF Len(results) = 0 THEN << >>
    ELSE Head(results).routes \o validNewRoutesAllOrNothing(Tail(results))

\* results.flat().filter(r => r !== null)
RECURSIVE validNewRoutes(_)
validNewRoutes(results) ==
    IF Len(results) = 0 THEN << >>
    ELSE Head(results).routes \o validNewRoutes(Tail(results))

\* The application when a selection of files is about to be imported: no route
\* yet, or one drawn route.
InitImport ==
    /\ routes \in { << >>,
                    << handleRouteCreated(<< Pt(0, 0), Pt(3000, 3000) >>, 1, 0, DEFAULT_SETTINGS) >> }
    /\ settings = DEFAULT_SETTINGS
    /\ nextId = Len(routes)
    /\ steps = 0
    /\ drawing = << >>
    /\ lastOp = Op("none", 0, 0, 0, FALSE)
    /\ \E files \in ImportBatches :
          call = [fn |-> "pending", files |-> files, isLoading |-> FALSE,
                  results |-> [i \in 1..Len(files) |-> Unsettled], before |-> << >>]

\* handleImport(files) up to its await: setIsLoading(true) and one parse started per file
CallImport ==
    /\ call.fn = "pending"
    /\ call' = [call EXCEPT !.fn = "handleImport", !.isLoading = TRUE]
    /\ UNCHANGED <<routes, settings, nextId, steps, drawing, lastOp>>

\* one of the parses completes, in any order; the ids of its routes are generated then
ParseSettled ==
    /\ call.fn = "handleImport"
    /\ \E i \in 1..Len(call.files) :
          /\ call.results[i] = Unsettled
          /\ LET result == importPromise(call.files[i], nextId + 1)
             IN  /\ call' = [call EXCEPT !.results[i] = result]
                 /\ nextId' = nextId + Len(result.routes)
    /\ UNCHANGED <<routes, settings, steps, drawing, lastOp>>

\* Promise.all has resolved: the routes are appended by setRoutes(prev => [...prev, ...validNewRoutes])
\* and the finally block clears the loading flag
BatchSettled ==
    /\ call.fn = "handleImport"
    /\ \A i \in 1..Len(call.files) : call.results[i] # Unsettled
    /\ LET new == validNewRoutes(call.results)
       IN  /\ routes' = (IF Len(new) > 0 THEN routes \o new ELSE routes)
           /\ call' = [call EXCEPT !.fn = "settled", !.isLoading = FALSE, !.before = routes]
           /\ lastOp' = Op("import", 0, 0, Len(call.files), Len(new) > 0)
    /\ drawing' = Track(routes, DOMAIN drawing)
    /\ UNCHANGED <<settings, nextId, steps>>

\* The user may draw a route while the files are being parsed.
NextImport ==
    \/ CallImport
    \/ ParseSettled
    \/ BatchSettled
    \/ Draw

SpecImport == InitImport /\ [][NextImport]_vars

\* ------------------------------------- App.tsx: the route the statistics describe

\* The values of selectedStatsRouteId: 'all' or a route id.
AllRoutes == [kind |-> "all", id |-> 0]
OneRoute(id) == [kind |-> "route", id |-> id]

\* localStorage without a saved project
NoProject == << >>

\* useState initial values, and nothing saved yet
InitSelect ==
    /\ routes = << >>
    /\ settings = DEFAULT_SETTINGS
    /\ nextId = 0
    /\ steps = 0
    /\ drawing = << >>
    /\ lastOp = Op("none", 0, 0, 0, FALSE)
    /\ call = [fn |-> "App", selectedStatsRouteId |-> AllRoutes, project |-> NoProject]

\* Sidebar: the route selector of the statistics section, shown while there are
\* routes; its options are 'all' and the routes of the list
SelectStatsRoute ==
    /\ CanStep
    /\ Len(routes) > 0
    /\ \E value \in {AllRoutes} \cup {OneRoute(routes[i].id) : i \in 1..Len(routes)} :
          /\ value # call.selectedStatsRouteId
          /\ call' = [call EXCEPT !.selectedStatsRouteId = value]
          /\ lastOp' = Op("selectStatsRoute", value.id, 0, value.kind, TRUE)
    /\ Tick /\ UNCHANGED <<routes, settings, nextId, drawing>>

\* App.saveProject: localStorage.setItem(name, JSON.stringify({ routes, settings }))
SaveProject ==
    /\ CanStep
    /\ call.project # Some([routes |-> routes, settings |-> settings])
    /\ call' = [call EXCEPT !.project = Some([routes |-> routes, settings |-> settings])]
    /\ lastOp' = Op("saveProject", 0, 0, 0, TRUE)
    /\ Tick /\ UNCHANGED <<routes, settings, nextId, drawing>>

\* App.loadProject: setRoutes(data.routes); setSettings(data.settings)
LoadProject ==
    /\ CanStep
    /\ IsDefined(call.project)
    /\ routes' = TheValue(call.project).routes
    /\ settings' = TheValue(call.project).settings
    /\ drawing' = Track(routes', {})
    /\ lastOp' = Op("loadProject", 0, 0, 0, routes' # routes)
    /\ Tick /\ UNCHANGED <<nextId, call>>

NextSelect ==
    \/ Draw
    \/ Import
    \/ SelectStatsRoute
    \/ DeleteRoute
    \/ Undo
    \/ ClearRoutes
    \/ SaveProject
    \/ LoadProject

SpecSelect == InitSelect /\ [][NextSelect]_vars

\* ------------------------------------------------ fileService.ts: exportDJIWPML

\* Route names as drawing, renaming and importing make them.
ExportNames == { <<"Drawn Route", 1>>, <<"Drawn Route", 2>>, <<"Survey">>, <<"track">> }

\* a route of the list handed to the export, its id its place in the list
exportedRoute(id, name) ==
    handleConfirmRename(handleRouteCreated(<< Pt(0, 0), Pt(3000, 3000) >>, id, 0, DEFAULT_SETTINGS),
                        id, name)

\* The route lists exported; the export buttons are disabled on an empty list.
ExportRouteLists ==
    UNION { { [i \in 1..n |-> exportedRoute(i, names[i])] : names \in [1..n -> ExportNames] }
            : n \in 1..MaxRoutes }

\* new JSZip(): no entries
EmptyZip == << >>

\* zip.file(name, data): the entry of that name is added or replaced
zipFile(zip, name, data) == Spread(zip, (name :> data))

\* `${route.name}_DJI_Fly.kmz`
kmzName(route) == route.name \o <<"_DJI_Fly.kmz">>

InitExport ==
    /\ routes \in ExportRouteLists
    /\ settings = DEFAULT_SETTINGS
    /\ nextId = 0
    /\ steps = 0
    /\ drawing = << >>
    /\ lastOp = Op("none", 0, 0, 0, FALSE)
    /\ call = [fn |-> "pending", generating |-> {}, masterZip |-> EmptyZip,
               masterGenerating |-> << >>, saved |-> << >>]

\* exportDJIWPML(routes): routes.forEach builds each route's KMZ and starts its
\* kmzZip.generateAsync; the callbacks run later.
CallExport ==
    /\ call.fn = "pending"
    /\ call' = [call EXCEPT !.fn = "exportDJIWPML", !.generating = 1..Len(routes)]
    /\ UNCHANGED <<routes, settings, nextId, steps, drawing, lastOp>>

\* kmzZip.generateAsync(...).then(blob => ...) of route i: the blob is filed in
\* the master zip, and the callback of the last route of the list starts
\* masterZip.generateAsync, which packs the entries the zip holds at that moment.
KmzGenerated ==
    /\ call.fn = "exportDJIWPML"
    /\ \E i \in call.generating :
          LET filed == zipFile(call.masterZip, kmzName(routes[i]), i)
          IN  call' = [call EXCEPT !.generating = @ \ {i},
                                   !.masterZip = filed,
                                   !.masterGenerating =
                                        IF i = Len(routes) THEN Append(@, filed) ELSE @]
    /\ UNCHANGED <<routes, settings, nextId, steps, drawing, lastOp>>

\* masterZip.generateAsync(...).then(content => saveAs(content, "DJI_WPML_Missions.zip"))
MasterGenerated ==
    /\ call.fn = "exportDJIWPML"
    /\ Len(call.masterGenerating) > 0
    /\ call' = [call EXCEPT !.masterGenerating = Tail(@),
                            !.saved = Append(@, Head(call.masterGenerating))]
    /\ UNCHANGED <<routes, settings, nextId, steps, drawing, lastOp>>

NextExport ==
    \/ CallExport
    \/ KmzGenerated
    \/ MasterGenerated

SpecExport == InitExport /\ [][NextExport]_vars

\* ----------------------------------------------------------------- claims

\* the coverage routes: created by drawing a polygon in mapping mode
IsCoverageRoute(r) ==
    /\ r.id \in DOMAIN drawing
    /\ drawing[r.id].mode = "mapping"
    /\ drawing[r.id].layerType = "polygon"

\* C1: for every coverage route created by drawing a polygon in mapping mode,
\* the stored originalPolygon (which every regeneration hands to
\* generateGridWaypoints) is the vertex list the user drew, open or closed,
\* and not the output of generateGridWaypoints.
C1_OriginalPolygonIsDrawnVertexList ==
    \A i \in 1..Len(routes) :
        IsCoverageRoute(routes[i]) =>
            /\ IsDefined(routes[i].originalPolygon)
            /\ TheValue(routes[i].originalPolygon) \in
                  { drawing[routes[i].id].drawn,
                    drawnRing("polygon", drawing[routes[i].id].drawn) }

\* C2: a coverage route rotated to 45 and then to 0, with the settings as they
\* were at creation and nothing else done to it, has the coordinates it had
\* when it was created.
C2_RotateBackRestoresCreation ==
    \A i \in 1..Len(routes) :
        (IsCoverageRoute(routes[i]) /\ drawing[routes[i].id].phase = "rot45_0") =>
            Coords(routes[i].waypoints) = drawing[routes[i].id].created

\* C3: no operation changes the originalPolygon of a route that stays in the
\* list: rotation, applying settings, waypoint moves, edits, deletions and
\* reorders, lock toggles, home-point moves and renames all leave it as it is.
C3_OriginalPolygonNeverChanges ==
    [][\A i \in 1..Len(routes) : \A j \in 1..Len(routes') :
          routes'[j].id = routes[i].id =>
              routes'[j].originalPolygon = routes[i].originalPolygon]_vars

\* C3 witness: an unlocked coverage route has just been regenerated by a rotation.
C3_Witness ==
    /\ lastOp.op = "rotate"
    /\ lastOp.changed
    /\ \E i \in 1..Len(routes) :
          /\ routes[i].id = lastOp.routeId
          /\ IsDefined(routes[i].originalPolygon)
          /\ Len(routes[i].waypoints) >= 2

\* C4: after handleRotationUpdate(route, a) on an unlocked route that has an
\* originalPolygon, gridRotation is a and the waypoint coordinates are
\* generateGridWaypoints(originalPolygon, settings, a): the angle is absolute.
C4_RotationIsAbsolute ==
    lastOp.op = "rotate" =>
        \A i \in 1..Len(routes) :
            (/\ routes[i].id = lastOp.routeId
             /\ ~routes[i].locked
             /\ IsDefined(routes[i].originalPolygon)) =>
                /\ routes[i].gridRotation = Some(lastOp.arg)
                /\ Coords(routes[i].waypoints) =
                      generateGridWaypoints(TheValue(routes[i].originalPolygon),
                                            settings, lastOp.arg).value

\* C4 witness: an unlocked coverage route rotated to 45 has just been rotated to 0.
C4_Witness ==
    /\ lastOp.op = "rotate"
    /\ \E i \in 1..Len(routes) :
          /\ routes[i].id = lastOp.routeId
          /\ ~routes[i].locked
          /\ IsDefined(routes[i].originalPolygon)
          /\ routes[i].id \in DOMAIN drawing
          /\ drawing[routes[i].id].phase = "rot45_0"
          /\ Len(routes[i].waypoints) >= 2

\* C5: applySettingsToRoutes leaves every locked route exactly as it was.
C5_ApplySkipsLockedRoutes ==
    [][lastOp'.op = "applySettings" =>
          /\ Len(routes') = Len(routes)
          /\ \A i \in 1..Len(routes) : routes[i].locked => routes'[i] = routes[i]]_vars

\* C5 witness: settings have just been applied, a route changed, and another
\* route is locked and differs from what the settings would make of it.
C5_Witness ==
    /\ lastOp.op = "applySettings"
    /\ lastOp.changed
    /\ \E i \in 1..Len(routes) :
          /\ routes[i].locked
          /\ appliedRoute(routes[i], settings) # routes[i]

\* C6: in every reachable state the waypoint ids within each route are
\* pairwise distinct.
C6_WaypointIdsDistinct ==
    \A i \in 1..Len(routes) :
        \A a, b \in 1..Len(routes[i].waypoints) :
            a # b => routes[i].waypoints[a].id # routes[i].waypoints[b].id

\* C6 witness: a rotation has just renumbered a route of two or more waypoints.
C6_Witness ==
    /\ lastOp.op = "rotate"
    /\ lastOp.changed
    /\ \E i \in 1..Len(routes) :
          /\ routes[i].id = lastOp.routeId
          /\ Len(routes[i].waypoints) >= 2
          /\ Ids(routes[i].waypoints) = [k \in 1..Len(routes[i].waypoints) |-> k]

\* a waypoint's fields other than its heading
WithoutHeading(wp) == [f \in (DOMAIN wp) \ {"heading"} |-> wp[f]]

\* the row a reorder in the given direction exchanges row index with
NeighbourRow(index, direction) == IF direction = "up" THEN index - 1 ELSE index + 1

\* C7 as stated: handleReorderWaypoint on an unlocked route changes nothing but
\* the position of the waypoint, which trades places with its neighbour; a move
\* up at the first row or down at the last leaves the route unchanged.
C7_ReorderOnlyChangesPosition ==
    [][lastOp'.op = "reorderWaypoint" =>
          \A i \in 1..Len(routes) :
              (routes[i].id = lastOp'.routeId /\ ~routes[i].locked) =>
                  LET wps == routes[i].waypoints
                      index == findIndex(wps, lastOp'.wpId)
                      to == NeighbourRow(index, lastOp'.arg)
                  IN  IF to \in 1..Len(wps)
                      THEN /\ Len(routes'[i].waypoints) = Len(wps)
                           /\ routes'[i].waypoints[index] = wps[to]
                           /\ routes'[i].waypoints[to] = wps[index]
                           /\ \A k \in 1..Len(wps) :
                                 k \notin {index, to} => routes'[i].waypoints[k] = wps[k]
                      ELSE routes'[i] = routes[i]]_vars

\* C7 amended: handleReorderWaypoint on an unlocked route exchanges the waypoint
\* with its neighbour, every waypoint keeping its id and all its fields except
\* the heading; the headings move with their waypoints unless the heading mode
\* is auto_bearing, in which case they are recomputed from the new order. The
\* other fields of the route and the other routes are unchanged, and a move up
\* at the first row or down at the last leaves the route unchanged.
C7_ReorderSwapsNeighbours ==
    [][lastOp'.op = "reorderWaypoint" =>
          /\ Len(routes') = Len(routes)
          /\ \A i \in 1..Len(routes) :
                IF routes[i].id = lastOp'.routeId /\ ~routes[i].locked
                THEN LET wps == routes[i].waypoints
                         new == routes'[i].waypoints
                         index == findIndex(wps, lastOp'.wpId)
                         to == NeighbourRow(index, lastOp'.arg)
                     IN  IF to \in 1..Len(wps)
                         THEN /\ routes'[i] = [routes[i] EXCEPT !.waypoints = new]
                              /\ Len(new) = Len(wps)
                              /\ WithoutHeading(new[index]) = WithoutHeading(wps[to])
                              /\ WithoutHeading(new[to]) = WithoutHeading(wps[index])
                              /\ \A k \in 1..Len(wps) :
                                    k \notin {index, to} =>
                                        WithoutHeading(new[k]) = WithoutHeading(wps[k])
                              /\ IF settings.headingMode = "auto_bearing"
                                 THEN new = updateWaypointsWithBearings(new)
                                 ELSE /\ new[index].heading = wps[to].heading
                                      /\ new[to].heading = wps[index].heading
                                      /\ \A k \in 1..Len(wps) :
                                            k \notin {index, to} => new[k].heading = wps[k].heading
                         ELSE routes'[i] = routes[i]
                ELSE routes'[i] = routes[i]]_vars

\* C7 witness: in auto_bearing mode a reorder has just exchanged two waypoints
\* of an unlocked route whose ids are not in row order any more.
C7_Witness ==
    /\ lastOp.op = "reorderWaypoint"
    /\ lastOp.changed
    /\ settings.headingMode = "auto_bearing"
    /\ \E i \in 1..Len(routes) :
          /\ routes[i].id = lastOp.routeId
          /\ ~routes[i].locked
          /\ \E k \in 1..(Len(routes[i].waypoints) - 1) :
                routes[i].waypoints[k].id > routes[i].waypoints[k + 1].id

\* a generator has been called
Called == call.fn \in {"generateGridWaypoints", "generateGridWaypointsZigZag"}

\* the call returned its input, without raising an error
ReturnedInput == call.result.outcome = "returned" /\ call.result.value = call.polygonCoords

\* C8: generateGridWaypoints called with fewer than 3 vertices returns its
\* input unchanged and raises no error.
C8_FewVerticesReturnedUnchanged ==
    (Called /\ Len(call.polygonCoords) < 3) => ReturnedInput

\* C9: generateGridWaypoints returns its input unchanged whenever the computed
\* lane spacing is 0.1 m or less, in particular at 100% lateral overlap.
C9_SmallLaneSpacingReturnsInput ==
    (Called /\ laneSpacingMeters(call.settings) <= 100) => ReturnedInput

\* C10: generateGridWaypoints always terminates, runs at most 500 scan lines,
\* and on reaching that cap returns the points generated so far.
C10_AtMostMaxLinesScanLines ==
    Called => (call.result.outcome # "loops" /\ call.result.scanLines <= maxLines)

\* the generator the call ran, applied to other arguments
gridOf(fn, polygonCoords, s, rotationAngle) ==
    IF fn = "generateGridWaypoints"
    THEN generateGridWaypoints(polygonCoords, s, rotationAngle)
    ELSE generateGridWaypointsZigZag(polygonCoords, s, rotationAngle)

\* the lane spacing in coordinate units, as the generator the call ran converts it
laneSpacingUnits(fn, s) ==
    (laneSpacingMeters(s) * 1000 * UnitsPerMicroDeg)
        \div (IF fn = "generateGridWaypoints" THEN metersPerDegLat ELSE 111132)

\* the call produced a grid (and not its input, an error or an endless loop)
ProducedGrid == call.result.outcome = "returned" /\ call.result.value # call.polygonCoords

\* the polygon is an axis-aligned rectangle: its vertices are the four corners
\* of its bounding box, listed once each (and the first one again when closed)
IsAxisRectangle(p) ==
    /\ Len(p) \in {4, 5}
    /\ Len(p) = 5 => p[5] = p[1]
    /\ LET bbox == turfBbox(p)
       IN  /\ bbox.minX < bbox.maxX
           /\ bbox.minY < bbox.maxY
           /\ {p[i] : i \in 1..4} = {Pt(bbox.minY, bbox.minX), Pt(bbox.minY, bbox.maxX),
                                     Pt(bbox.maxY, bbox.minX), Pt(bbox.maxY, bbox.maxX)}

\* ceil(n / d) for n >= 0, d > 0
CeilDiv(n, d) == (n + d - 1) \div d

\* the latitudes of the lanes of a grid generated at rotation 0
LaneLatitudes(pts) == {pts[i].lat : i \in 1..Len(pts)}

\* the points of the lane at latitude y, in the order they are emitted
LaneAt(pts, y) == SelectSeq(pts, LAMBDA q : q.lat = y)

\* a lane's points run from west to east, or from east to west
IsWestToEast(lane) == \A i \in 1..(Len(lane) - 1) : lane[i].lng <= lane[i + 1].lng
IsEastToWest(lane) == \A i \in 1..(Len(lane) - 1) : lane[i].lng >= lane[i + 1].lng

\* consecutive lanes of two points or more run in opposite directions, each as a whole
LanesAlternate(pts) ==
    \A i \in 1..(Len(pts) - 1) :
        pts[i].lat # pts[i + 1].lat =>
            LET prev == LaneAt(pts, pts[i].lat)
                next == LaneAt(pts, pts[i + 1].lat)
            IN  (Len(prev) >= 2 /\ Len(next) >= 2) =>
                    \/ IsWestToEast(prev) /\ IsEastToWest(next)
                    \/ IsEastToWest(prev) /\ IsWestToEast(next)

\* C11: at rotation 0, on an axis-aligned rectangle of height H and with lane
\* spacing L, the generator produces exactly ceil(H / L) lanes, each from the
\* rectangle's left edge to its right edge, consecutive lanes in opposite
\* directions (rectangles that need more lanes than the safety cap left aside).
C11_RectangleHasCeilLanes ==
    (/\ Called
     /\ call.rotationAngle = 0
     /\ IsAxisRectangle(call.polygonCoords)
     /\ laneSpacingMeters(call.settings) > 100
     /\ LET box == turfBbox(call.polygonCoords)
        IN  CeilDiv(box.maxY - box.minY, laneSpacingUnits(call.fn, call.settings)) <= maxLines) =>
        LET bbox == turfBbox(call.polygonCoords)
            L == laneSpacingUnits(call.fn, call.settings)
            pts == IF ProducedGrid THEN call.result.value ELSE <<>>
        IN  /\ call.result.outcome = "returned"
            /\ Cardinality(LaneLatitudes(pts)) = CeilDiv(bbox.maxY - bbox.minY, L)
            /\ \A y \in LaneLatitudes(pts) :
                   {LaneAt(pts, y)[1].lng, LaneAt(pts, y)[Len(LaneAt(pts, y))].lng}
                       = {bbox.minX, bbox.maxX}
            /\ LanesAlternate(pts)

\* C12: with the cross-hatch pattern selected the generated path is the pass at
\* the angle theta followed by the pass at theta + 90; with the single-direction
\* pattern it is the pass at theta alone.
C12_CrossHatchIsTwoPasses ==
    LET single == [call.settings EXCEPT !.mappingPattern = "parallel"]
        first == gridOf(call.fn, call.polygonCoords, single, call.rotationAngle)
        second == gridOf(call.fn, call.polygonCoords, single, call.rotationAngle + 90)
    IN  (/\ Called
         /\ first.outcome = "returned" /\ first.value # call.polygonCoords
         /\ second.outcome = "returned" /\ second.value # call.polygonCoords) =>
            /\ call.result.outcome = "returned"
            /\ call.result.value =
                  IF call.settings.mappingPattern = "crosshatch"
                  THEN first.value \o second.value
                  ELSE first.value

\* C13: for any polygon, concave ones included, the points of each lane are
\* emitted in the reverse horizontal order of the previous lane: a lane emitted
\* west to east is followed by one whose whole point sequence runs east to west.
C13_SuccessiveLanesReversed ==
    (Called /\ call.rotationAngle = 0 /\ ProducedGrid) => LanesAlternate(call.result.value)

\* a call of one of the estimators has been made
StatsCalled == call.fn \in {"estimateRouteStats", "estimateRouteStatsBySegment"}

\* the estimator the call ran, applied to other arguments
statsOf(fn, rs, s, targetRouteId) ==
    IF fn = "estimateRouteStats" THEN estimateRouteStats(rs, s, targetRouteId)
    ELSE estimateRouteStatsBySegment(rs, s, targetRouteId)

\* the routes the call covers that have waypoints
Covered ==
    SelectSeq(routes, LAMBDA r : (call.targetRouteId = "all" \/ r.id = call.targetRouteId)
                                 /\ Len(r.waypoints) > 0)

\* the waypoints of the covered routes, as (route, index) pairs
CoveredWaypoints == {<<k, i>> \in (1..Len(Covered)) \X (1..3) : i <= Len(Covered[k].waypoints)}

\* the routes with every Stay action replaced by no action
WithoutStay(rs) ==
    [k \in 1..Len(rs) |->
        [rs[k] EXCEPT !.waypoints =
            [i \in 1..Len(rs[k].waypoints) |->
                IF rs[k].waypoints[i].actionType1 = 0
                THEN [rs[k].waypoints[i] EXCEPT !.actionType1 = -1]
                ELSE rs[k].waypoints[i]]]]

\* the Stay parameters of the covered waypoints, summed, in ticks
StayParams ==
    SumSeq([k \in 1..Len(Covered) |->
              SumSeq([i \in 1..Len(Covered[k].waypoints) |->
                        IF Covered[k].waypoints[i].actionType1 = 0
                        THEN Covered[k].waypoints[i].actionParam1 * 10000 ELSE 0])])

\* C14: every waypoint whose action is Stay adds exactly its action parameter,
\* in seconds and once, to the total time: the total exceeds the total of the
\* same routes without their Stay actions by the sum of the Stay parameters.
C14_StayAddsItsParameterOnce ==
    StatsCalled =>
        call.result.totalTimeMinutes
            - statsOf(call.fn, WithoutStay(routes), settings, call.targetRouteId).totalTimeMinutes
          = StayParams

\* the travel time of the path of a route, each segment at the speed of its
\* first waypoint when that is > 0 and at the settings' speed otherwise
PathTravelTime(route) ==
    SumSeq([i \in 1..(Len(route.waypoints) - 1) |->
              travelTime(segDist(route, i),
                         IF route.waypoints[i].speed > 0 THEN route.waypoints[i].speed
                         ELSE speedMs(settings))])

\* C15: the time added for each consecutive waypoint pair is the segment
\* distance over the first waypoint's own speed when that is > 0, and over the
\* settings' speed otherwise: with a positive settings' speed, no return leg and
\* no Stay or Photo action, the total time is the commute at the settings'
\* speed plus those segment times.
C15_SegmentTimeUsesWaypointSpeed ==
    (/\ StatsCalled
     /\ speedMs(settings) > 0
     /\ settings.finishAction # 1
     /\ \A w \in CoveredWaypoints : Covered[w[1]].waypoints[w[2]].actionType1 \notin {0, 1}) =>
        call.result.totalTimeMinutes =
            SumSeq([k \in 1..Len(Covered) |->
                      travelTime(commuteDist(Covered[k]), speedMs(settings))
                        + PathTravelTime(Covered[k])])

\* the last-waypoint-to-home distances of the covered routes, summed
ReturnLegs ==
    SumSeq([k \in 1..Len(Covered) |->
              calculateDistance(Covered[k].waypoints[Len(Covered[k].waypoints)].latitude,
                                Covered[k].waypoints[Len(Covered[k].waypoints)].longitude,
                                Covered[k].homePoint.lat, Covered[k].homePoint.lng)])

\* C16: with the finish action return-to-home the distance from the last
\* waypoint to the home point is added to the total distance and its time to
\* the total time; with any other finish action no return leg is added.
C16_ReturnLegOnlyWhenReturnToHome ==
    StatsCalled =>
        LET none == statsOf(call.fn, routes, [settings EXCEPT !.finishAction = 0], call.targetRouteId)
        IN  IF settings.finishAction = 1
            THEN /\ call.result.totalDistance = none.totalDistance + ReturnLegs
                 /\ ReturnLegs > 0 => call.result.totalTimeMinutes > none.totalTimeMinutes
            ELSE call.result = none

\* C17: two waypoints 100 m apart, the home point 11.1 m from the first, 5 m/s
\* on the waypoints and in the settings, return-to-home, no actions: the total
\* distance is commute + segment + return leg (about 211.1 m) and the total
\* time is that distance over 5 m/s (about 42.2 s).
C17_ScenarioTotals ==
    (/\ StatsCalled
     /\ routes = <<StatsRoute.r1>>
     /\ call.targetRouteId \in {"all", "r1"}
     /\ settings.speedKmh = 18
     /\ settings.finishAction = 1) =>
        /\ call.result.totalDistance = commuteDist(routes[1]) + segDist(routes[1], 1) + ReturnLegs
        /\ call.result.totalDistance \in 210000..213000
        /\ call.result.totalTimeMinutes = travelTime(call.result.totalDistance, 500)
        /\ call.result.totalTimeMinutes \in 420000..426000

\* the permutations of a list
Orderings(xs) ==
    {[i \in 1..Len(xs) |-> xs[f[i]]] :
        f \in {g \in [1..Len(xs) -> 1..Len(xs)] : \A i, j \in 1..Len(xs) : g[i] = g[j] => i = j}}

\* the results for each route id on its own, summed field by field
SumOfSingles ==
    LET single == [k \in 1..Len(routes) |-> statsOf(call.fn, routes, settings, routes[k].id)]
    IN  [ totalDistance |-> SumSeq([k \in 1..Len(routes) |-> single[k].totalDistance]),
          totalTimeMinutes |-> SumSeq([k \in 1..Len(routes) |-> single[k].totalTimeMinutes]),
          photoCount |-> SumSeq([k \in 1..Len(routes) |-> single[k].photoCount]),
          videoCount |-> SumSeq([k \in 1..Len(routes) |-> single[k].videoCount]) ]

\* C18: batch statistics are a pure sum: for a list of routes with distinct ids
\* every field of the result for 'all' is the sum of the results for each route
\* id on its own, and is the same for every permutation of the list.
C18_BatchIsSumOfRoutes ==
    (StatsCalled /\ call.targetRouteId = "all") =>
        /\ call.result = SumOfSingles
        /\ \A p \in Orderings(routes) : statsOf(call.fn, p, settings, "all") = call.result

\* a batch call over two routes or more that have waypoints and a length
C18_Witness ==
    /\ StatsCalled
    /\ call.targetRouteId = "all"
    /\ Len(Covered) >= 2
    /\ \A k \in 1..Len(Covered) : Len(Covered[k].waypoints) >= 2
    /\ call.result.totalDistance > 0
    /\ call.result.totalTimeMinutes > 0
    /\ call.result = SumOfSingles

\* C19: a waypoint with a positive photo-by-time interval adds
\* floor(pathTravelTime / interval) photos, pathTravelTime being the travel
\* time of the whole portion of the route the interval governs: when every
\* waypoint of a route declares the same interval, the photos added are the
\* floor of the route's path travel time over it, not a sum of floors per
\* segment.
C19_IntervalPhotosOverWholePath ==
    (/\ StatsCalled
     /\ Len(Covered) > 0
     /\ \A w \in CoveredWaypoints :
            /\ Covered[w[1]].waypoints[w[2]].photoTimeInterval
                  = Covered[w[1]].waypoints[1].photoTimeInterval
            /\ Covered[w[1]].waypoints[w[2]].photoTimeInterval > 0
            /\ Covered[w[1]].waypoints[w[2]].speed > 0
            /\ Covered[w[1]].waypoints[w[2]].actionType1 = -1) =>
        call.result.photoCount =
            SumSeq([k \in 1..Len(Covered) |->
                      PathTravelTime(Covered[k])
                          \div (Covered[k].waypoints[1].photoTimeInterval * 10000)])

\* the recording clips along a route: the StartRecording actions met while not
\* recording that a later StopRecording closes
Clips(route) ==
    LET wps == route.waypoints
        Recording[i \in 0..Len(wps)] ==
            IF i = 0 THEN FALSE
            ELSE IF wps[i].actionType1 = 2 THEN TRUE
            ELSE IF wps[i].actionType1 = 3 THEN FALSE
            ELSE Recording[i - 1]
    IN  Cardinality({i \in 1..Len(wps) :
                        /\ wps[i].actionType1 = 2
                        /\ ~Recording[i - 1]
                        /\ \E j \in (i + 1)..Len(wps) : wps[j].actionType1 = 3})

\* C20: the video count is the number of recording clips along the waypoint
\* sequence, one per StartRecording that a following StopRecording closes; a
\* second StartRecording before any StopRecording opens no second clip, and a
\* StartRecording is treated alike on every waypoint, the last included.
C20_VideoCountIsClipCount ==
    StatsCalled =>
        call.result.videoCount = SumSeq([k \in 1..Len(Covered) |-> Clips(Covered[k])])

\* |a - b| <= tolerance
Within(a, b, tolerance) == a - b <= tolerance /\ b - a <= tolerance

\* two bearings in centidegrees agree modulo 360 degrees, within 0.1 degree
SameBearing(a, b) ==
    LET d == (a - b) % 36000 IN d <= 10 \/ d >= 36000 - 10

\* the destination was computed and measured back: the distance agrees within
\* 5 cm and the bearing within 0.1 degree
RoundTripAgrees ==
    /\ Within(call.distanceBack, call.distanceMeters, 50)
    /\ SameBearing(call.bearingBack, call.bearing * 100)

ScannedFlat ==
    /\ call.fn = "generateGridWaypoints"
    /\ call.rotationAngle = 0
    /\ call.result.outcome = "returned"
    /\ call.result.scanLines > 0

\* the latitude of scan line k (k = 0 is the first) of that call
ScanLineLatitude(k) ==
    turfBbox(closeRing(call.polygonCoords)).minY
        + (laneSpacingUnits(call.fn, call.settings) \div 2)
        + k * laneSpacingUnits(call.fn, call.settings)

\* the intersections of scan line k with the polygon, sorted by x
Intersections(k) == SortAscending(lineIntersect(ScanLineLatitude(k), closeRing(call.polygonCoords)))

\* the points the call emitted on scan line k
EmittedOn(k) ==
    IF ProducedGrid THEN LaneAt(call.result.value, ScanLineLatitude(k)) ELSE <<>>

\* C22: on each scan line the intersections, sorted by x, are paired (1st, 2nd),
\* (3rd, 4th), ... into spans; a scan line with fewer than 2 intersections
\* contributes no points, both ends of every span are emitted, and every
\* emitted point lies on a span (an unpaired last intersection is not emitted).
C22_IntersectionsPairedLeftToRight ==
    ScannedFlat =>
        \A k \in 0..(call.result.scanLines - 1) :
            LET hits == Intersections(k)
                lane == EmittedOn(k)
                lngs == {lane[i].lng : i \in 1..Len(lane)}
            IN  /\ Len(hits) < 2 => lane = <<>>
                /\ ProducedGrid =>
                       \A j \in 1..(Len(hits) \div 2) : {hits[2 * j - 1], hits[2 * j]} \subseteq lngs
                /\ \A x \in lngs :
                       \E j \in 1..(Len(hits) \div 2) : hits[2 * j - 1] <= x /\ x <= hits[2 * j]

\* a scan line through the tip of the notch: three intersections, one span
C22_Witness ==
    /\ ScannedFlat
    /\ ProducedGrid
    /\ \E k \in 0..(call.result.scanLines - 1) :
           /\ Len(Intersections(k)) = 3
           /\ Len(EmittedOn(k)) >= 2
           /\ \A i \in 1..Len(EmittedOn(k)) : EmittedOn(k)[i].lng <= Intersections(k)[2]

C24_UndoRevertsLastAction ==
    [][/\ handleUndo(<< >>) = << >>
       /\ (lastOp'.op # "undo" /\ routes' # routes) => handleUndo(routes') = routes]_vars

\* the operations on one route that the lock guards
LockGuardedOps == {"moveWaypoint", "editWaypoint", "deleteWaypoint", "reorderWaypoint", "rotate"}

\* C25: a waypoint move, field edit, deletion or reorder and a grid rotation
\* leave the targeted route entirely unchanged while it is locked, and always
\* leave every route other than the targeted one unchanged.
C25_LockedAndOtherRoutesUnchanged ==
    [][lastOp'.op \in LockGuardedOps =>
          /\ Len(routes') = Len(routes)
          /\ \A i \in 1..Len(routes) :
                (routes[i].locked \/ routes[i].id # lastOp'.routeId) => routes'[i] = routes[i]]_vars

\* a waypoint of a locked route has just been dragged to a place where it is
\* not, next to another route
C25_Witness ==
    /\ lastOp.op = "moveWaypoint"
    /\ ~lastOp.changed
    /\ Len(routes) >= 2
    /\ \E i \in 1..Len(routes) :
          /\ routes[i].id = lastOp.routeId
          /\ routes[i].locked
          /\ \E k \in 1..Len(routes[i].waypoints) :
                /\ routes[i].waypoints[k].id = lastOp.wpId
                /\ Pt(routes[i].waypoints[k].latitude, routes[i].waypoints[k].longitude) # lastOp.arg

\* types.ts: the fields of interface Waypoint
WaypointFields ==
    { "id", "latitude", "longitude", "altitude", "heading", "curveSize", "rotationDir",
      "gimbalMode", "gimbalPitch", "actionType1", "actionParam1", "actionType2",
      "actionParam2", "altitudeMode", "speed", "poiLat", "poiLon", "poiAlt", "poiAltMode",
      "photoTimeInterval", "photoDistInterval" }

\* C26: in every reachable state every waypoint of every route has every field of
\* Waypoint defined, also after handleRotationUpdate and after the mapping-mode
\* regeneration of applySettingsToRoutes that follow waypoint deletions.
C26_WaypointsComplete ==
    \A i \in 1..Len(routes) : \A k \in 1..Len(routes[i].waypoints) :
        WaypointFields \subseteq DOMAIN routes[i].waypoints[k]

\* C27: the zip exportDJIWPML saves holds one .kmz entry for every route of the
\* list, whatever order the per-route KMZ generations complete in, and it is
\* saved once only.
C27_SavedZipHasEveryRoute ==
    (call.fn = "exportDJIWPML" /\ Len(call.saved) > 0) =>
        /\ Len(call.saved) = 1
        /\ Cardinality(DOMAIN call.saved[1]) = Len(routes)
        /\ \A i \in 1..Len(routes) :
              /\ kmzName(routes[i]) \in DOMAIN call.saved[1]
              /\ call.saved[1][kmzName(routes[i])] = i

\* a route list without the generated ids
WithoutIds(rs) == [i \in 1..Len(rs) |-> [rs[i] EXCEPT !.id = 0]]

\* the routes of the files that parse, file after file in the order of the selection
RECURSIVE InFileOrder(_)
InFileOrder(files) ==
    IF Len(files) = 0 THEN << >>
    ELSE (IF Head(files).readable THEN WithoutIds(importedRoutes(Head(files), 0)) ELSE << >>)
         \o InFileOrder(Tail(files))

\* C28: once the batch of handleImport has settled, the route list is the list
\* present before followed by the routes of every file that parsed, in the order
\* of the file list whatever order the parses completed in and whether or not
\* other files failed, and the loading flag is false.
C28_ImportAppendsInFileOrder ==
    (call.fn = "settled" /\ lastOp.op = "import") =>
        /\ WithoutIds(routes) = WithoutIds(call.before) \o InFileOrder(call.files)
        /\ call.isLoading = FALSE

\* a batch with a failing file and two parsed files has settled, the file listed
\* last having been parsed first
C28_Witness ==
    /\ call.fn = "settled" /\ lastOp.op = "import"
    /\ \E k \in 1..Len(call.files) : ~call.files[k].readable
    /\ Len(call.files) >= 2
    /\ \E i, j \in 1..Len(call.files) :
          /\ i < j
          /\ call.results[i].state = "routes" /\ call.results[j].state = "routes"
          /\ call.results[j].routes[1].id < call.results[i].routes[1].id
    /\ Len(call.before) > 0

\* C29: applySettingsToRoutes is idempotent: right after it has run, running it
\* again with the same settings leaves the route list as it is.
C29_ApplySettingsIdempotent ==
    lastOp.op = "applySettings" =>
        [n \in 1..Len(routes) |-> applySettingsToRoute(routes[n], settings)] = routes

\* applySettingsToRoutes has just regenerated and renumbered the grid of a
\* coverage route from which a waypoint had been deleted
C29_Witness ==
    /\ lastOp.op = "applySettings" /\ lastOp.changed
    /\ settings.flightMode = "mapping"
    /\ \E i \in 1..Len(routes) :
          /\ ~routes[i].locked
          /\ IsDefined(routes[i].originalPolygon) /\ IsDefined(routes[i].gridRotation)
          /\ Len(routes[i].waypoints) > 2
          /\ routes[i].id \in DOMAIN drawing /\ drawing[routes[i].id].phase = "other"

\* C30: in every reachable state selectedStatsRouteId is 'all' or the id of a
\* route of the route list, also after a route deletion, an undo, a clear-all
\* and a project load.
C30_SelectedStatsRouteExists ==
    \/ call.selectedStatsRouteId = AllRoutes
    \/ \E i \in 1..Len(routes) : OneRoute(routes[i].id) = call.selectedStatsRouteId

====
